---- MODULE Spec2Model ----
(***************************************************************************)
(* A model of the e2e testing helper (github.com/sivchari/e2e): the HTTP,  *)
(* gRPC and GraphQL request builders, their Execute method, their          *)
(* assertions and the failure reports they emit through testing.TB.        *)
(*                                                                         *)
(* One behaviour is one test function that constructs one suite, creates   *)
(* one builder, configures it, executes it and chains assertions on it,    *)
(* followed by the test's teardown.                                        *)
(***************************************************************************)
EXTENDS Integers, Sequences, FiniteSets, TLC

VARIABLES
    adapter,    \* the suite the test constructed: "http", "grpc" or "graphql"
    suite,      \* TestSuite / GRPCSuite / GraphQLSuite: config and shared client
    h,          \* the HTTPBuilder
    g,          \* the GRPCBuilder
    q,          \* the GraphQLBuilder
    t,          \* the testing.TB of the test
    net,        \* the world outside the library: calls issued, response streams
    obs,        \* what the test has observed of its own chain of calls
    peer        \* a second HTTPBuilder of the suite, and what the test observed of it

vars == <<adapter, suite, h, g, q, t, net, obs, peer>>

-----------------------------------------------------------------------------
(* Bounds of the model.                                                    *)

MaxConfig == 2      \* configuration calls on the builder
MaxAsserts == 3     \* assertion calls in the chain
MaxExec == 2        \* Execute calls on the builder (SpecRepeat only)

-----------------------------------------------------------------------------
(* Go values.                                                              *)

\* A []byte: nil is distinct from an empty, non-nil slice.
NilBytes == [nil |-> TRUE, b |-> ""]
Bytes(s) == [nil |-> FALSE, b |-> s]

\* A map[string]string or an http.Header holding one value per key.
NoHeaders == [k \in {} |-> ""]

\* interface{} values and decoded JSON trees.  encoding/json decodes every
\* number to float64; a structured Go value may also hold an int.
JNull == [t |-> "nil"]
JNum(n) == [t |-> "float64", n |-> n]
GoInt(n) == [t |-> "int", n |-> n]
JStr(s) == [t |-> "string", s |-> s]
JBool(b) == [t |-> "bool", b |-> b]
JObj(m) == [t |-> "map", m |-> m]
JArr(a) == [t |-> "slice", a |-> a]
GoChan == [t |-> "chan"]            \* a value encoding/json cannot marshal

ObjA(v) == JObj([k \in {"a"} |-> v])

\* encoding/json writes the keys of a map in sorted order.
KeyOrder == <<"a", "b", "count", "limit", "name", "q", "user">>
SortedKeys(S) == SelectSeq(KeyOrder, LAMBDA k : k \in S)

\* The escaping of a string's characters inside a JSON string literal.
RECURSIVE Escape(_)
Escape(s) ==
    IF s = "" THEN ""
    ELSE LET c == SubSeq(s, 1, 1) IN
         (IF c = "\"" THEN "\\\"" ELSE c) \o Escape(SubSeq(s, 2, Len(s)))

RECURSIVE MarshalValue(_)
RECURSIVE MarshalFields(_, _)
RECURSIVE MarshalElems(_)
MarshalFields(m, keys) ==
    IF keys = <<>> THEN ""
    ELSE "\"" \o Head(keys) \o "\":" \o MarshalValue(m[Head(keys)])
         \o (IF Tail(keys) = <<>> THEN "" ELSE ",")
         \o MarshalFields(m, Tail(keys))
MarshalElems(a) ==
    IF a = <<>> THEN ""
    ELSE MarshalValue(Head(a)) \o (IF Tail(a) = <<>> THEN "" ELSE ",")
         \o MarshalElems(Tail(a))
MarshalValue(v) ==
    CASE v.t = "nil" -> "null"
      [] v.t \in {"float64", "int"} -> ToString(v.n)
      [] v.t = "bool" -> IF v.b THEN "true" ELSE "false"
      [] v.t = "string" -> "\"" \o Escape(v.s) \o "\""
      [] v.t = "map" -> "{" \o MarshalFields(v.m, SortedKeys(DOMAIN v.m)) \o "}"
      [] v.t = "slice" -> "[" \o MarshalElems(v.a) \o "]"

\* A value holding a channel anywhere has no JSON encoding.
RECURSIVE Unsupported(_)
Unsupported(v) ==
    CASE v.t = "chan" -> TRUE
      [] v.t = "map" -> \E k \in DOMAIN v.m : Unsupported(v.m[k])
      [] v.t = "slice" -> \E i \in DOMAIN v.a : Unsupported(v.a[i])
      [] OTHER -> FALSE

\* json.Marshal: the bytes, or an error for a value that has no encoding.
Marshal(v) ==
    IF Unsupported(v) THEN [err |-> TRUE, b |-> ""]
    ELSE [err |-> FALSE, b |-> MarshalValue(v)]

\* JSON documents as they are written on the wire: a number is its literal,
\* an object the sequence of its members in the order they were written.
WNull == [w |-> "null"]
WBool(b) == [w |-> "bool", b |-> b]
WNum(lit) == [w |-> "number", lit |-> lit]
WStr(s) == [w |-> "string", s |-> s]
WArr(a) == [w |-> "array", a |-> a]
WObj(m) == [w |-> "object", m |-> m]

RECURSIVE Render(_)
RECURSIVE RenderMembers(_)
RECURSIVE RenderElems(_)
RenderMembers(m) ==
    IF m = <<>> THEN ""
    ELSE "\"" \o Head(m)[1] \o "\":" \o Render(Head(m)[2])
         \o (IF Tail(m) = <<>> THEN "" ELSE ",") \o RenderMembers(Tail(m))
RenderElems(a) ==
    IF a = <<>> THEN ""
    ELSE Render(Head(a)) \o (IF Tail(a) = <<>> THEN "" ELSE ",") \o RenderElems(Tail(a))
\* The text of a document.
Render(d) ==
    CASE d.w = "null" -> "null"
      [] d.w = "bool" -> IF d.b THEN "true" ELSE "false"
      [] d.w = "number" -> d.lit
      [] d.w = "string" -> "\"" \o Escape(d.s) \o "\""
      [] d.w = "array" -> "[" \o RenderElems(d.a) \o "]"
      [] d.w = "object" -> "{" \o RenderMembers(d.m) \o "}"

\* strconv.ParseFloat on the number literals of the model.
NumLits == {"1", "1.0", "2", "42", "42.0"}
ParseFloat(lit) ==
    CASE lit \in {"1", "1.0"} -> 1
      [] lit = "2" -> 2
      [] lit \in {"42", "42.0"} -> 42

\* The tree json.Unmarshal builds for a document: every number a float64,
\* an object a map in which the last of two members with one key wins.
RECURSIVE Decode(_)
\* Decode keeping a number without a fraction as an int.
Decode_Int(d) ==
    CASE d.w = "null" -> JNull
      [] d.w = "bool" -> JBool(d.b)
      [] d.w = "number" -> GoInt(ParseFloat(d.lit))
      [] d.w = "string" -> JStr(d.s)
      [] d.w = "array" -> JArr([i \in DOMAIN d.a |-> Decode(d.a[i])])
      [] d.w = "object" ->
            JObj([k \in {d.m[i][1] : i \in DOMAIN d.m} |->
                     LET last == CHOOSE i \in DOMAIN d.m :
                                    /\ d.m[i][1] = k
                                    /\ \A j \in DOMAIN d.m : d.m[j][1] = k => j <= i IN
                     Decode(d.m[last][2])])

Decode(d) ==
    CASE d.w = "null" -> JNull
      [] d.w = "bool" -> JBool(d.b)
      [] d.w = "number" -> JNum(ParseFloat(d.lit))
      [] d.w = "string" -> JStr(d.s)
      [] d.w = "array" -> JArr([i \in DOMAIN d.a |-> Decode(d.a[i])])
      [] d.w = "object" ->
            JObj([k \in {d.m[i][1] : i \in DOMAIN d.m} |->
                     LET last == CHOOSE i \in DOMAIN d.m :
                                    /\ d.m[i][1] = k
                                    /\ \A j \in DOMAIN d.m : d.m[j][1] = k => j <= i IN
                     Decode(d.m[last][2])])

\* The documents of the model.
WireNumbers == {WNum(lit) : lit \in NumLits}
WireStrings ==
    {"1", "Alice", "null", "oops", "\"Alice\"", "{\"a\":1}", "{\"count\":42.0}",
     "{\"b\":2,\"a\":1}"}
WireScalars ==
    WireNumbers \cup {WNull, WBool(TRUE)} \cup {WStr(str) : str \in WireStrings}
WireSmall == {WNum("1"), WNum("2"), WStr("Alice")}
WireArrays ==
    {WArr(<<>>)} \cup {WArr(<<x>>) : x \in WireSmall}
    \cup {WArr(<<x, y>>) : x \in WireSmall, y \in WireSmall}
WireInner == {WObj(<<<<"name", WStr("Alice")>>>>), WObj(<<<<"a", WNum("1")>>>>)}
WireKeys == {"a", "b", "count", "name", "user"}
WireDocs ==
    WireScalars \cup WireArrays \cup {WObj(<<>>)}
    \cup {WObj(<<<<k, v>>>>) :
             k \in WireKeys, v \in WireScalars \cup WireArrays \cup WireInner}
    \cup {WObj(<<<<k1, x>>, <<k2, y>>>>) :
             k1 \in {"a", "b"}, k2 \in {"a", "b"}, x \in WireSmall, y \in WireSmall}

\* json.Unmarshal into an interface{}: the tree of the document the text
\* spells, or an error for a text that is no JSON document.
WireTable ==
    [text \in {Render(d) : d \in WireDocs} |->
        Decode(CHOOSE d \in WireDocs : Render(d) = text)]
WireTexts == {"", "oops", "{\"a\":1}", "{\"a\":1.0}", "{\"a\":2}"}
Unmarshal(text) ==
    IF text \in DOMAIN WireTable THEN [err |-> FALSE, v |-> WireTable[text]]
    ELSE [err |-> TRUE, v |-> JNull]

\* net/http canonical header keys (textproto.CanonicalMIMEHeaderKey).
Canon(k) ==
    CASE k = "content-type" -> "Content-Type"
      [] k = "authorization" -> "Authorization"
      [] k = "X-Request-ID" -> "X-Request-Id"
      [] k = "x-custom-header" -> "X-Custom-Header"
      [] OTHER -> k

\* http.StatusText
StatusText(code) ==
    CASE code = 200 -> "OK"
      [] code = 201 -> "Created"
      [] code = 400 -> "Bad Request"
      [] code = 401 -> "Unauthorized"
      [] OTHER -> ""

\* fmt.Sprintf("%d %s", code, http.StatusText(code))
StatusLine(code) == ToString(code) \o " " \o StatusText(code)

Min(a, b) == IF a <= b THEN a ELSE b

-----------------------------------------------------------------------------
(* testing.TB: failure reporting and scoped cleanup.                       *)

\* A failure message; the fields are the lines of the report.
Message(kind) ==
    [kind |-> kind, title |-> "", request |-> "", url |-> "",
     reqHeaders |-> NoHeaders, reqBody |-> "",
     response |-> "", respHeaders |-> NoHeaders, respBody |-> "",
     assertion |-> "", expected |-> "", actual |-> ""]

NotExecuted == Message("Request not executed. Call Execute() first.")

\* t.Fatal / t.Fatalf: log the message, mark the test failed and stop the
\* calling goroutine (runtime.Goexit): nothing after the call runs.
Fatal(w, msg) ==
    [w EXCEPT !.t.failed = TRUE, !.t.halted = TRUE,
              !.t.reports = @ + 1, !.t.msg = msg]

\* t.Error: log the message and mark the test failed; the caller continues.
Error(w, msg) ==
    [w EXCEPT !.t.failed = TRUE, !.t.reports = @ + 1, !.t.msg = msg]

\* t.Cleanup(f): f runs at teardown, last registered first.
Cleanup(w, f) == [w EXCEPT !.t.cleanups = <<f>> \o @]

CancelFn == [kind |-> "cancel", stream |-> 0]
CloseBodyFn(s) == [kind |-> "closeBody", stream |-> s]
CloseConnFn == [kind |-> "closeConn", stream |-> 0]

-----------------------------------------------------------------------------
(* The world: one record holding every piece of state a method can touch.  *)
(* A method of the library is an operator from a world (and its arguments) *)
(* to the world it leaves behind; after t.Fatal the world is halted and    *)
(* the rest of the method is skipped.                                      *)

World ==
    [adapter |-> adapter, suite |-> suite, h |-> h, g |-> g, q |-> q,
     t |-> t, net |-> net, obs |-> obs, peer |-> peer]

Commit(w) ==
    /\ adapter' = w.adapter
    /\ suite' = w.suite
    /\ h' = w.h
    /\ g' = w.g
    /\ q' = w.q
    /\ t' = w.t
    /\ net' = w.net
    /\ obs' = w.obs
    /\ peer' = w.peer

-----------------------------------------------------------------------------
(* The network and the response streams.                                   *)

\* The timeout that bounds a call: the earliest of the context deadline and
\* the client's Timeout; 0 when neither is set (http.Client: "a Timeout of
\* zero means no timeout").
Bound(req) ==
    IF req.deadline > 0 /\ req.clientTimeout > 0
    THEN Min(req.deadline, req.clientTimeout)
    ELSE IF req.deadline > 0 THEN req.deadline
    ELSE IF req.clientTimeout > 0 THEN req.clientTimeout
    ELSE 0

\* io.ReadAll(resp.Body): everything not yet read, as a non-nil slice, or
\* the stream's error.
ReadAll(w, s) ==
    LET st == w.net.streams[s]
        w1 == [w EXCEPT !.net.streams[s].reads = @ + 1] IN
    IF ~st.ok
    THEN [w |-> w1, body |-> NilBytes, err |-> TRUE]
    ELSE [w |-> [w1 EXCEPT !.net.streams[s].rest = ""],
          body |-> Bytes(st.rest), err |-> FALSE]

\* resp.Body.Close()
CloseBody(n, s) == [n EXCEPT !.streams[s].closed = TRUE]

-----------------------------------------------------------------------------
(* HTTP adapter: suite and builder (src/e2e.go).                           *)

DefaultTimeout == 30
maxBodySize == 1024

\* New keeping a zero timeout as it was given.
New_NoDefault(config) ==
    [baseURL |-> config.BaseURL, timeout |-> config.Timeout,
     clientTimeout |-> config.Timeout]

\* New(tb, config)
New(config) ==
    LET timeout == IF config.Timeout = 0 THEN DefaultTimeout ELSE config.Timeout IN
    [baseURL |-> config.BaseURL, timeout |-> timeout, clientTimeout |-> timeout]

NoResp == [set |-> FALSE, status |-> 0, header |-> NoHeaders, stream |-> 0]

\* TestSuite.GET / POST / ...: a fresh builder.
HTTPBuilder(method, path) ==
    [method |-> method, path |-> path, body |-> JNull, headers |-> NoHeaders,
     query |-> NoHeaders, timeout |-> 0, resp |-> NoResp,
     requestURL |-> "", requestHeaders |-> NoHeaders,
     requestBody |-> NilBytes, responseBody |-> NilBytes]

\* m[key] = value on a map[string]string
MapSet(m, key, value) ==
    [k \in DOMAIN m \cup {key} |-> IF k = key THEN value ELSE m[k]]

\* Body checking at once that the value can be serialized.
Body_Validating(w, body) ==
    IF Unsupported(body) THEN Fatal(w, Message("Failed to serialize body"))
    ELSE [w EXCEPT !.h.body = body]

Body(w, body) == [w EXCEPT !.h.body = body]
Header(w, key, value) == [w EXCEPT !.h.headers = MapSet(@, key, value)]
Query(w, key, value) == [w EXCEPT !.h.query = MapSet(@, key, value)]
Authorization(w, value) == Header(w, "Authorization", value)
Timeout(w, timeout) == [w EXCEPT !.h.timeout = timeout]

\* url.Parse
ParseOK(ref) == ref # "%zz"

\* url.Values.Encode: key=value pairs joined by "&", sorted by key.
RECURSIVE EncodeKeys(_, _)
EncodeKeys(m, keys) ==
    IF keys = <<>> THEN ""
    ELSE Head(keys) \o "=" \o m[Head(keys)]
         \o (IF Tail(keys) = <<>> THEN "" ELSE "&")
         \o EncodeKeys(m, Tail(keys))
Encode(m) == EncodeKeys(m, SortedKeys(DOMAIN m))

buildURL(w) ==
    IF ~ParseOK(w.suite.baseURL)
    THEN [w |-> Fatal(w, Message("Failed to parse base URL")), url |-> ""]
    ELSE IF ~ParseOK(w.h.path)
    THEN [w |-> Fatal(w, Message("Failed to parse path")), url |-> ""]
    ELSE [w |-> w,
          url |-> w.suite.baseURL \o w.h.path
                  \o (IF DOMAIN w.h.query # {} THEN "?" \o Encode(w.h.query) ELSE "")]

\* serializeBody encoding a string as JSON like any other value.
serializeBody_MarshalAll(hh) ==
    IF hh.body.t = "nil" THEN [err |-> FALSE, b |-> NilBytes]
    ELSE LET m == Marshal(hh.body) IN
         IF m.err THEN [err |-> TRUE, b |-> NilBytes]
         ELSE [err |-> FALSE, b |-> Bytes(m.b)]

\* serializeBody: a string is sent as it is, any other value as its JSON.
serializeBody(hh) ==
    IF hh.body.t = "nil" THEN [err |-> FALSE, b |-> NilBytes]
    ELSE IF hh.body.t = "string" THEN [err |-> FALSE, b |-> Bytes(hh.body.s)]
    ELSE LET m == Marshal(hh.body) IN
         IF m.err THEN [err |-> TRUE, b |-> NilBytes]
         ELSE [err |-> FALSE, b |-> Bytes(m.b)]

prepareBody(w) ==
    IF w.h.body.t = "nil" THEN [w |-> w, reader |-> NilBytes]
    ELSE LET r == serializeBody(w.h) IN
         IF r.err
         THEN [w |-> Fatal(w, Message("Failed to serialize body")), reader |-> NilBytes]
         ELSE [w |-> [w EXCEPT !.h.requestBody = r.b], reader |-> r.b]

applyTimeout(w) ==
    IF w.h.timeout <= 0 THEN [w |-> w, deadline |-> 0]
    ELSE [w |-> Cleanup(w, CancelFn), deadline |-> w.h.timeout]

\* http.NewRequestWithContext
createRequest(w, deadline, reqURL, bodyReader) ==
    [method |-> w.h.method, url |-> reqURL, body |-> bodyReader,
     header |-> NoHeaders, deadline |-> deadline, clientTimeout |-> 0]

\* setHeaders writing the automatic Content-Type after the configured
\* headers, so that it always wins.
setHeaders_ContentTypeLast(hh, req) ==
    LET base == IF hh.body.t # "nil"
                THEN [k \in {"Content-Type"} |-> "application/json"]
                ELSE NoHeaders
        canon == {Canon(k) : k \in DOMAIN hh.headers}
        winners == {ch \in [canon -> DOMAIN hh.headers] :
                       \A c \in canon : Canon(ch[c]) = c} IN
    {[req EXCEPT !.header = [c \in DOMAIN base \cup canon |->
                                IF c \in DOMAIN base THEN base[c] ELSE hh.headers[ch[c]]]] :
        ch \in winners}

\* The headers setHeaders can leave on the request.  req.Header.Set stores
\* the value under the canonical key, and Go ranges over h.headers in no
\* fixed order: of two keys with one canonical form, either can win.
setHeaders(hh, req) ==
    LET base == IF hh.body.t # "nil"
                THEN [k \in {"Content-Type"} |-> "application/json"]
                ELSE NoHeaders
        canon == {Canon(k) : k \in DOMAIN hh.headers}
        winners == {ch \in [canon -> DOMAIN hh.headers] :
                       \A c \in canon : Canon(ch[c]) = c} IN
    {[req EXCEPT !.header = [c \in DOMAIN base \cup canon |->
                                IF c \in canon THEN hh.headers[ch[c]] ELSE base[c]]] :
        ch \in winners}

\* What the network does with one HTTP request.
Refused == [kind |-> "refused", status |-> 0, header |-> NoHeaders, body |-> "", ok |-> FALSE]
TimedOut == [kind |-> "timeout", status |-> 0, header |-> NoHeaders, body |-> "", ok |-> FALSE]
Response(status, header, body, ok) ==
    [kind |-> "response", status |-> status, header |-> header, body |-> body, ok |-> ok]

\* executeRequest without the t.Fatalf: a failed client.Do is ignored and
\* Execute returns to the caller.
executeRequest_NoFatal(w, req, outcome) ==
    LET sent == [req EXCEPT !.clientTimeout =
                    IF w.h.timeout > 0 THEN w.h.timeout ELSE w.suite.clientTimeout]
        w1 == [w EXCEPT !.net.calls = @ + 1, !.net.sent = Append(@, sent),
                        !.net.timedOut = @ \/ outcome.kind = "timeout"] IN
    IF outcome.kind # "response"
    THEN w1
    ELSE LET s == Len(w1.net.streams) + 1
             stream == [status |-> outcome.status, header |-> outcome.header,
                        body |-> outcome.body, rest |-> outcome.body,
                        ok |-> outcome.ok, reads |-> 0, closed |-> FALSE]
             w2 == [w1 EXCEPT !.net.streams = Append(@, stream)]
             w3 == Cleanup(w2, CloseBodyFn(s)) IN
         [w3 EXCEPT !.h.resp = [set |-> TRUE, status |-> outcome.status,
                                header |-> outcome.header, stream |-> s]]

\* executeRequest without the t.Cleanup that closes the response body.
executeRequest_NoCleanup(w, req, outcome) ==
    LET sent == [req EXCEPT !.clientTimeout =
                    IF w.h.timeout > 0 THEN w.h.timeout ELSE w.suite.clientTimeout]
        w1 == [w EXCEPT !.net.calls = @ + 1, !.net.sent = Append(@, sent),
                        !.net.timedOut = @ \/ outcome.kind = "timeout"] IN
    IF outcome.kind # "response"
    THEN Fatal(w1, Message("Failed to execute request"))
    ELSE LET s == Len(w1.net.streams) + 1
             stream == [status |-> outcome.status, header |-> outcome.header,
                        body |-> outcome.body, rest |-> outcome.body,
                        ok |-> outcome.ok, reads |-> 0, closed |-> FALSE]
             w2 == [w1 EXCEPT !.net.streams = Append(@, stream)] IN
         [w2 EXCEPT !.h.resp = [set |-> TRUE, status |-> outcome.status,
                                header |-> outcome.header, stream |-> s]]

\* executeRequest setting the per-call timeout on the suite's client instead
\* of building a client of its own.
executeRequest_SharedClient(w, req, outcome) ==
    LET w0 == IF w.h.timeout > 0 THEN [w EXCEPT !.suite.clientTimeout = w.h.timeout]
              ELSE w
        sent == [req EXCEPT !.clientTimeout = w0.suite.clientTimeout]
        w1 == [w0 EXCEPT !.net.calls = @ + 1, !.net.sent = Append(@, sent),
                         !.net.timedOut = @ \/ outcome.kind = "timeout"] IN
    IF outcome.kind # "response"
    THEN Fatal(w1, Message("Failed to execute request"))
    ELSE LET s == Len(w1.net.streams) + 1
             stream == [status |-> outcome.status, header |-> outcome.header,
                        body |-> outcome.body, rest |-> outcome.body,
                        ok |-> outcome.ok, reads |-> 0, closed |-> FALSE]
             w2 == [w1 EXCEPT !.net.streams = Append(@, stream)]
             w3 == Cleanup(w2, CloseBodyFn(s)) IN
         [w3 EXCEPT !.h.resp = [set |-> TRUE, status |-> outcome.status,
                                header |-> outcome.header, stream |-> s]]

executeRequest(w, req, outcome) ==
    LET sent == [req EXCEPT !.clientTimeout =
                    IF w.h.timeout > 0 THEN w.h.timeout ELSE w.suite.clientTimeout]
        w1 == [w EXCEPT !.net.calls = @ + 1, !.net.sent = Append(@, sent),
                        !.net.timedOut = @ \/ outcome.kind = "timeout"] IN
    IF outcome.kind # "response"
    THEN Fatal(w1, Message("Failed to execute request"))
    ELSE LET s == Len(w1.net.streams) + 1
             stream == [status |-> outcome.status, header |-> outcome.header,
                        body |-> outcome.body, rest |-> outcome.body,
                        ok |-> outcome.ok, reads |-> 0, closed |-> FALSE]
             w2 == [w1 EXCEPT !.net.streams = Append(@, stream)]
             w3 == Cleanup(w2, CloseBodyFn(s)) IN
         [w3 EXCEPT !.h.resp = [set |-> TRUE, status |-> outcome.status,
                                header |-> outcome.header, stream |-> s]]

\* HTTPBuilder.Execute; `pick` chooses among the outcomes of the map range
\* in setHeaders.
Execute(w, pick, outcome) ==
    LET u == buildURL(w) IN
    IF u.w.t.halted THEN u.w ELSE
    LET b == prepareBody(u.w) IN
    IF b.w.t.halted THEN b.w ELSE
    LET c == applyTimeout(b.w)
        req0 == createRequest(c.w, c.deadline, u.url, b.reader)
        reqs == setHeaders(c.w.h, req0)
        req == CHOOSE r \in reqs : r.header = pick
        w1 == [c.w EXCEPT !.h.requestURL = u.url, !.h.requestHeaders = req.header] IN
    executeRequest(w1, req, outcome)

\* The headers Execute may send from the current configuration.
ExecutePicks(w) ==
    {r.header : r \in setHeaders(w.h, createRequest(w, 0, "", NilBytes))}

-----------------------------------------------------------------------------
(* HTTP adapter: assertions and the failure report (src/e2e.go).           *)

\* json.MarshalIndent(v, "", "  ")
RECURSIVE IndentValue(_, _)
RECURSIVE IndentFields(_, _, _)
RECURSIVE IndentElems(_, _)
IndentFields(m, keys, pad) ==
    IF keys = <<>> THEN ""
    ELSE pad \o "\"" \o Head(keys) \o "\": " \o IndentValue(m[Head(keys)], pad)
         \o (IF Tail(keys) = <<>> THEN "\n" ELSE ",\n")
         \o IndentFields(m, Tail(keys), pad)
IndentElems(a, pad) ==
    IF a = <<>> THEN ""
    ELSE pad \o IndentValue(Head(a), pad)
         \o (IF Tail(a) = <<>> THEN "\n" ELSE ",\n")
         \o IndentElems(Tail(a), pad)
IndentValue(v, pad) ==
    CASE v.t = "map" /\ DOMAIN v.m # {} ->
            "{\n" \o IndentFields(v.m, SortedKeys(DOMAIN v.m), pad \o "  ") \o pad \o "}"
      [] v.t = "slice" /\ v.a # <<>> ->
            "[\n" \o IndentElems(v.a, pad \o "  ") \o pad \o "]"
      [] OTHER -> MarshalValue(v)
MarshalIndent(v) == IndentValue(v, "")

\* jsonEqual comparing only the sizes of the two encodings.
jsonEqual_SameSize(a, b) == Len(Marshal(a).b) = Len(Marshal(b).b)

\* jsonEqual: the two values have the same JSON encoding.
jsonEqual(a, b) == Marshal(a).b = Marshal(b).b

\* http.Header.Get: the value stored under the canonical key, or "".
HeaderGet(header, key) ==
    IF Canon(key) \in DOMAIN header THEN header[Canon(key)] ELSE ""

\* readResponseBody without the cache test: the stream is read on every call.
readResponseBody_NoCache(w) ==
    LET r == ReadAll(w, w.h.resp.stream) IN
    IF r.err
    THEN [w |-> Fatal(r.w, Message("Failed to read response body")), body |-> NilBytes]
    ELSE [w |-> [r.w EXCEPT !.h.responseBody = r.body], body |-> r.body]

\* readResponseBody: the cached body, or the stream read once and cached.
readResponseBody(w) ==
    IF ~w.h.responseBody.nil THEN [w |-> w, body |-> w.h.responseBody]
    ELSE LET r == ReadAll(w, w.h.resp.stream) IN
         IF r.err
         THEN [w |-> Fatal(r.w, Message("Failed to read response body")),
               body |-> NilBytes]
         ELSE [w |-> [r.w EXCEPT !.h.responseBody = r.body], body |-> r.body]

\* truncateBody cutting a body that has exactly the maximum size too.
truncateBody_Strict(body) ==
    IF Len(body.b) < maxBodySize THEN body.b
    ELSE SubSeq(body.b, 1, maxBodySize) \o "... (truncated)"

truncateBody(body) ==
    IF Len(body.b) <= maxBodySize THEN body.b
    ELSE SubSeq(body.b, 1, maxBodySize) \o "... (truncated)"

\* writeHeaders: one line per key, holding the key's first value.
writeHeaders(headers) == headers

\* formatError without the request body line.
formatError_NoRequestBody(w, assertion, expected, actual) ==
    LET r == readResponseBody(w) IN
    [w |-> r.w,
     msg |-> [kind |-> "report",
              title |-> "=== HTTP Request Failed ===",
              request |-> w.h.method \o " " \o w.h.path,
              url |-> w.h.requestURL,
              reqHeaders |-> writeHeaders(w.h.requestHeaders),
              reqBody |-> "",
              response |-> StatusLine(w.h.resp.status),
              respHeaders |-> writeHeaders(w.h.resp.header),
              respBody |-> IF Len(r.body.b) > 0 THEN truncateBody(r.body) ELSE "",
              assertion |-> assertion, expected |-> expected, actual |-> actual]]

\* formatError: the report, and the world after reading the response body.
formatError(w, assertion, expected, actual) ==
    LET r == readResponseBody(w) IN
    [w |-> r.w,
     msg |-> [kind |-> "report",
              title |-> "=== HTTP Request Failed ===",
              request |-> w.h.method \o " " \o w.h.path,
              url |-> w.h.requestURL,
              reqHeaders |-> writeHeaders(w.h.requestHeaders),
              reqBody |-> IF Len(w.h.requestBody.b) > 0
                          THEN truncateBody(w.h.requestBody) ELSE "",
              response |-> StatusLine(w.h.resp.status),
              respHeaders |-> writeHeaders(w.h.resp.header),
              respBody |-> IF Len(r.body.b) > 0 THEN truncateBody(r.body) ELSE "",
              assertion |-> assertion, expected |-> expected, actual |-> actual]]

\* t.Fatal(h.formatError(...)): the report is built first, then emitted.
FatalReport(f) == IF f.w.t.halted THEN f.w ELSE Fatal(f.w, f.msg)

\* The Errorf variant of a report: logged, the caller continues.
ErrorReport(f) == IF f.w.t.halted THEN f.w ELSE Error(f.w, f.msg)

ExpectStatus_Errorf(w, statusCode) ==
    IF ~w.h.resp.set THEN Fatal(w, NotExecuted)
    ELSE IF w.h.resp.status # statusCode
    THEN ErrorReport(formatError(w, "Status code mismatch",
                                 StatusLine(statusCode), StatusLine(w.h.resp.status)))
    ELSE w

ExpectStatus(w, statusCode) ==
    IF ~w.h.resp.set THEN Fatal(w, NotExecuted)
    ELSE IF w.h.resp.status # statusCode
    THEN FatalReport(formatError(w, "Status code mismatch",
                                 StatusLine(statusCode), StatusLine(w.h.resp.status)))
    ELSE w

\* The comparison both branches of ExpectJSON end with.
CompareJSON(w, expected, actual) ==
    IF ~jsonEqual(expected, actual)
    THEN FatalReport(formatError(w, "JSON response mismatch",
                                 MarshalIndent(expected), MarshalIndent(actual)))
    ELSE w

ExpectJSON(w, expected) ==
    IF ~w.h.resp.set THEN Fatal(w, NotExecuted) ELSE
    LET r == readResponseBody(w) IN
    IF r.w.t.halted THEN r.w ELSE
    LET actual == Unmarshal(r.body.b) IN
    IF actual.err THEN Fatal(r.w, Message("Failed to parse JSON response")) ELSE
    IF expected.t = "string"
    THEN LET expectedParsed == Unmarshal(expected.s) IN
         IF expectedParsed.err
         THEN Fatal(r.w, Message("Failed to parse expected JSON"))
         ELSE CompareJSON(r.w, expectedParsed.v, actual.v)
    ELSE LET expectedBytes == Marshal(expected) IN
         IF expectedBytes.err
         THEN Fatal(r.w, Message("Failed to marshal expected value"))
         ELSE LET expectedNormalized == Unmarshal(expectedBytes.b) IN
              IF expectedNormalized.err
              THEN Fatal(r.w, Message("Failed to normalize expected value"))
              ELSE CompareJSON(r.w, expectedNormalized.v, actual.v)

ExpectHeader(w, key, value) ==
    IF ~w.h.resp.set THEN Fatal(w, NotExecuted) ELSE
    LET actualValue == HeaderGet(w.h.resp.header, key) IN
    IF actualValue # value
    THEN FatalReport(formatError(w, "Header mismatch (" \o key \o ")", value, actualValue))
    ELSE w

-----------------------------------------------------------------------------
(* gRPC adapter (src/grpc.go).                                             *)

\* Protocol-buffer messages of the test service: a type and one string field.
ProtoMsg(type, id) == [nil |-> FALSE, type |-> type, id |-> id]
NilMsg == [nil |-> TRUE, type |-> "", id |-> ""]
BadUTF8 == "\\xff"

\* proto.Marshal: a field holding its default value is not written; a string
\* field that is not valid UTF-8 is an error.
ProtoMarshal(m) ==
    IF m.id = BadUTF8 THEN [err |-> TRUE, b |-> NilBytes]
    ELSE IF m.id = "" THEN [err |-> FALSE, b |-> Bytes("")]
    ELSE [err |-> FALSE, b |-> Bytes("0a:" \o m.id)]

\* proto.Unmarshal into a reset message of the given type.
ProtoUnmarshal(b, type) ==
    CASE b = "" -> [err |-> FALSE, m |-> ProtoMsg(type, "")]
      [] b = "0a:1" -> [err |-> FALSE, m |-> ProtoMsg(type, "1")]
      [] b = "0a:2" -> [err |-> FALSE, m |-> ProtoMsg(type, "2")]
      [] OTHER -> [err |-> TRUE, m |-> ProtoMsg(type, "")]

\* prototext.Format
protoString(m) == IF m.id = "" THEN "" ELSE "id:\"" \o m.id \o "\""

\* An error returned by conn.Invoke, as status.Convert sees it.
NoErr == [nil |-> TRUE, code |-> "OK", msg |-> ""]
StatusErr(code, msg) == [nil |-> FALSE, code |-> code, msg |-> msg]

\* NewGRPC(tb, config): the connection's Close is registered as a cleanup.
NewGRPC(config) ==
    LET timeout == IF config.Timeout = 0 THEN DefaultTimeout ELSE config.Timeout IN
    [baseURL |-> config.BaseURL, timeout |-> timeout, clientTimeout |-> 0]

\* GRPCSuite.Call
GRPCBuilder(method) ==
    [method |-> method, body |-> NilMsg, md |-> NoHeaders, timeout |-> 0,
     respErr |-> NoErr, respBody |-> NilBytes]

GRPC_Body(w, message) == [w EXCEPT !.g.body = message]
\* metadata.MD.Append: the value is added to the key's list.
GRPC_Metadata(w, key, value) ==
    [w EXCEPT !.g.md = MapSet(@, key, IF key \in DOMAIN @ THEN @[key] \o "," \o value
                                      ELSE value)]
GRPC_Timeout(w, d) == [w EXCEPT !.g.timeout = d]

GRPC_serializeBody(gg) ==
    IF gg.body.nil THEN [err |-> FALSE, b |-> NilBytes] ELSE ProtoMarshal(gg.body)

\* conn.Invoke returning an empty reply and no error when the deadline passes.
InvokeResult_Silent(outcome) ==
    CASE outcome.kind = "ok" -> [err |-> NoErr, body |-> Bytes(outcome.body)]
      [] outcome.kind = "status" ->
            [err |-> StatusErr(outcome.code, outcome.msg), body |-> NilBytes]
      [] outcome.kind = "refused" ->
            [err |-> StatusErr("Unavailable", "connection error"), body |-> NilBytes]
      [] outcome.kind = "timeout" -> [err |-> NoErr, body |-> Bytes("")]

\* What conn.Invoke returns: the reply's bytes, or an error carrying a status.
InvokeResult(outcome) ==
    CASE outcome.kind = "ok" -> [err |-> NoErr, body |-> Bytes(outcome.body)]
      [] outcome.kind = "status" ->
            [err |-> StatusErr(outcome.code, outcome.msg), body |-> NilBytes]
      [] outcome.kind = "refused" ->
            [err |-> StatusErr("Unavailable", "connection error"), body |-> NilBytes]
      [] outcome.kind = "timeout" ->
            [err |-> StatusErr("DeadlineExceeded", "context deadline exceeded"),
             body |-> NilBytes]

GRPC_Execute(w, outcome) ==
    LET w1 == IF w.g.timeout > 0 THEN Cleanup(w, CancelFn) ELSE w
        deadline == IF w.g.timeout > 0 THEN w.g.timeout ELSE 0
        reqBody == GRPC_serializeBody(w1.g) IN
    IF reqBody.err THEN Fatal(w1, Message("Failed to marshal request")) ELSE
    LET sent == [method |-> "/" \o w1.g.method, url |-> w1.suite.baseURL,
                 body |-> reqBody.b, header |-> w1.g.md,
                 deadline |-> deadline, clientTimeout |-> 0]
        r == InvokeResult(outcome) IN
    [w1 EXCEPT !.net.calls = @ + 1, !.net.sent = Append(@, sent),
               !.net.timedOut = @ \/ outcome.kind = "timeout",
               !.g.respErr = r.err, !.g.respBody = r.body]

GRPC_formatError(w, assertion, expected, actual) ==
    [kind |-> "report",
     title |-> "=== gRPC Request Failed ===",
     request |-> w.g.method,
     url |-> w.suite.baseURL,
     reqHeaders |-> NoHeaders,
     reqBody |-> IF ~w.g.body.nil THEN protoString(w.g.body) ELSE "",
     response |-> IF ~w.g.respErr.nil THEN w.g.respErr.code ELSE "",
     respHeaders |-> NoHeaders,
     respBody |-> IF ~w.g.respErr.nil THEN w.g.respErr.msg ELSE "",
     assertion |-> assertion, expected |-> expected, actual |-> actual]

\* ExpectCode telling only success from failure: any two error codes match.
GRPC_ExpectCode_AnyError(w, code) ==
    LET st == w.g.respErr IN
    IF (st.code = "OK") # (code = "OK")
    THEN Fatal(w, GRPC_formatError(w, "gRPC status code mismatch", code, st.code))
    ELSE w

GRPC_ExpectCode(w, code) ==
    LET st == w.g.respErr IN
    IF st.code # code
    THEN Fatal(w, GRPC_formatError(w, "gRPC status code mismatch", code, st.code))
    ELSE w

\* ExpectMessage going on to decode the payload whatever the RPC's status.
GRPC_ExpectMessage_IgnoreError(w, expected) ==
    LET actual == ProtoUnmarshal(w.g.respBody.b, expected.type) IN
    IF actual.err THEN Fatal(w, Message("Failed to unmarshal response"))
    ELSE IF expected # actual.m
    THEN Fatal(w, GRPC_formatError(w, "gRPC response message mismatch",
                                   protoString(expected), protoString(actual.m)))
    ELSE w

GRPC_ExpectMessage(w, expected) ==
    IF ~w.g.respErr.nil
    THEN Fatal(w, [Message("Cannot validate message: RPC failed")
                      EXCEPT !.response = w.g.respErr.code,
                             !.respBody = w.g.respErr.msg])
    ELSE LET actual == ProtoUnmarshal(w.g.respBody.b, expected.type) IN
         IF actual.err THEN Fatal(w, Message("Failed to unmarshal response"))
         ELSE IF expected # actual.m
         THEN Fatal(w, GRPC_formatError(w, "gRPC response message mismatch",
                                        protoString(expected), protoString(actual.m)))
         ELSE w

\* ExpectErrorMessage accepting a prefix of the status message.
GRPC_ExpectErrorMessage_Prefix(w, msg) ==
    LET st == w.g.respErr IN
    IF ~(Len(msg) <= Len(st.msg) /\ SubSeq(st.msg, 1, Len(msg)) = msg)
    THEN Fatal(w, GRPC_formatError(w, "gRPC error message mismatch", msg, st.msg))
    ELSE w

GRPC_ExpectErrorMessage(w, msg) ==
    LET st == w.g.respErr IN
    IF st.msg # msg
    THEN Fatal(w, GRPC_formatError(w, "gRPC error message mismatch", msg, st.msg))
    ELSE w

-----------------------------------------------------------------------------
(* GraphQL adapter (src/unnamed/part_002).                                 *)

NewGraphQL(config) ==
    LET timeout == IF config.Timeout = 0 THEN DefaultTimeout ELSE config.Timeout IN
    [baseURL |-> config.BaseURL, timeout |-> timeout, clientTimeout |-> timeout]

NoGraphQLResponse == [set |-> FALSE, Data |-> NilBytes, Errors |-> <<>>]

\* GraphQLSuite.Query / Mutation
GraphQLBuilder(query) ==
    [query |-> query, variables |-> JNull, headers |-> NoHeaders, timeout |-> 0,
     response |-> NoGraphQLResponse]

GraphQL_Variables(w, variables) == [w EXCEPT !.q.variables = variables]
GraphQL_Header(w, key, value) == [w EXCEPT !.q.headers = MapSet(@, key, value)]
GraphQL_Timeout(w, d) == [w EXCEPT !.q.timeout = d]

\* len(b.variables) on a map[string]any
VarsLen(variables) ==
    IF variables.t = "map" THEN Cardinality(DOMAIN variables.m) ELSE 0

\* json.Marshal of the request envelope {"query": ..., "variables": ...}
MarshalEnvelope(qq) ==
    IF VarsLen(qq.variables) > 0
    THEN LET v == Marshal(qq.variables) IN
         IF v.err THEN [err |-> TRUE, b |-> ""]
         ELSE [err |-> FALSE,
               b |-> "{\"query\":\"" \o qq.query \o "\",\"variables\":"
                     \o v.b \o "}"]
    ELSE [err |-> FALSE, b |-> "{\"query\":\"" \o qq.query \o "\"}"]

\* json.Unmarshal of a response body into a GraphQLResponse.
DataEnvelope(raw) == "{\"data\":" \o raw \o "}"
DataEnvelopes == [text \in {DataEnvelope(Render(d)) : d \in WireDocs} |->
                     SubSeq(text, 9, Len(text) - 1)]
UnmarshalEnvelope(text) ==
    CASE text \in DOMAIN DataEnvelopes ->
            [err |-> FALSE, Data |-> Bytes(DataEnvelopes[text]), Errors |-> <<>>]
      [] text = "{\"data\":null,\"errors\":[{\"message\":\"user not found\"}]}" ->
            [err |-> FALSE, Data |-> Bytes("null"), Errors |-> <<"user not found">>]
      [] text = "{\"errors\":[{\"message\":\"first\"},{\"message\":\"second\"}]}" ->
            [err |-> FALSE, Data |-> NilBytes, Errors |-> <<"first", "second">>]
      [] text = "{}" ->
            [err |-> FALSE, Data |-> NilBytes, Errors |-> <<>>]
      [] OTHER -> [err |-> TRUE, Data |-> NilBytes, Errors |-> <<>>]

\* The headers the request can carry: Content-Type, then every configured
\* header stored under its canonical key (see setHeaders).
GraphQL_setHeaders(qq) ==
    LET canon == {Canon(k) : k \in DOMAIN qq.headers}
        winners == {ch \in [canon -> DOMAIN qq.headers] :
                       \A c \in canon : Canon(ch[c]) = c} IN
    {[c \in {"Content-Type"} \cup canon |->
         IF c \in canon THEN qq.headers[ch[c]] ELSE "application/json"] :
        ch \in winners}

GraphQL_Execute(w, pick, outcome) ==
    LET w1 == IF w.q.timeout > 0 THEN Cleanup(w, CancelFn) ELSE w
        deadline == IF w.q.timeout > 0 THEN w.q.timeout ELSE 0
        bodyBytes == MarshalEnvelope(w1.q) IN
    IF bodyBytes.err THEN Fatal(w1, Message("Failed to marshal GraphQL request")) ELSE
    IF ~ParseOK(w1.suite.baseURL) THEN Fatal(w1, Message("Failed to create request")) ELSE
    LET sent == [method |-> "POST", url |-> w1.suite.baseURL,
                 body |-> Bytes(bodyBytes.b), header |-> pick, deadline |-> deadline,
                 clientTimeout |-> IF w1.q.timeout > 0 THEN w1.q.timeout
                                   ELSE w1.suite.clientTimeout]
        w2 == [w1 EXCEPT !.net.calls = @ + 1, !.net.sent = Append(@, sent),
                         !.net.timedOut = @ \/ outcome.kind = "timeout"] IN
    IF outcome.kind # "response"
    THEN Fatal(w2, Message("Failed to execute GraphQL request")) ELSE
    LET s == Len(w2.net.streams) + 1
        stream == [status |-> outcome.status, header |-> outcome.header,
                   body |-> outcome.body, rest |-> outcome.body,
                   ok |-> outcome.ok, reads |-> 0, closed |-> FALSE]
        w3 == [w2 EXCEPT !.net.streams = Append(@, stream)]
        r == ReadAll(w3, s)
        \* the deferred resp.Body.Close() runs however Execute ends
        w4 == [r.w EXCEPT !.net = CloseBody(@, s)] IN
    IF r.err THEN Fatal(w4, Message("Failed to read response body")) ELSE
    LET gqlResp == UnmarshalEnvelope(r.body.b) IN
    IF gqlResp.err THEN Fatal(w4, Message("Failed to parse GraphQL response")) ELSE
    [w4 EXCEPT !.q.response = [set |-> TRUE, Data |-> gqlResp.Data,
                               Errors |-> gqlResp.Errors]]

\* strings.Join(msgs, ", ")
RECURSIVE Join(_)
Join(msgs) ==
    IF msgs = <<>> THEN ""
    ELSE Head(msgs) \o (IF Tail(msgs) = <<>> THEN "" ELSE ", ") \o Join(Tail(msgs))

truncateString(s, maxLen) ==
    IF Len(s) <= maxLen THEN s ELSE SubSeq(s, 1, maxLen) \o "..."

GraphQL_formatError(w, assertion, expected, actual) ==
    [kind |-> "report",
     title |-> "=== GraphQL Request Failed ===",
     request |-> truncateString(w.q.query, 100),
     url |-> w.suite.baseURL,
     reqHeaders |-> NoHeaders,
     reqBody |-> IF VarsLen(w.q.variables) > 0
                 THEN truncateString(Marshal(w.q.variables).b, 100) ELSE "",
     response |-> IF w.q.response.set THEN Join(w.q.response.Errors) ELSE "",
     respHeaders |-> NoHeaders,
     respBody |-> "",
     assertion |-> assertion, expected |-> expected, actual |-> actual]

GraphQL_ExpectNoErrors(w) ==
    IF ~w.q.response.set THEN Fatal(w, NotExecuted)
    ELSE IF Len(w.q.response.Errors) > 0
    THEN Fatal(w, GraphQL_formatError(w, "Expected no GraphQL errors", "no errors",
                                      Join(w.q.response.Errors)))
    ELSE w

\* ExpectErrors taking a response without data for a response with errors.
GraphQL_ExpectErrors_NoData(w) ==
    IF ~w.q.response.set THEN Fatal(w, NotExecuted)
    ELSE IF ~w.q.response.Data.nil
    THEN Fatal(w, GraphQL_formatError(w, "Expected GraphQL errors",
                                      "at least one error", "no errors"))
    ELSE w

GraphQL_ExpectErrors(w) ==
    IF ~w.q.response.set THEN Fatal(w, NotExecuted)
    ELSE IF Len(w.q.response.Errors) = 0
    THEN Fatal(w, GraphQL_formatError(w, "Expected GraphQL errors",
                                      "at least one error", "no errors"))
    ELSE w

\* ExpectErrorMessage looking at the first error only.
GraphQL_ExpectErrorMessage_First(w, msg) ==
    IF ~w.q.response.set THEN Fatal(w, NotExecuted)
    ELSE IF Len(w.q.response.Errors) > 0 /\ w.q.response.Errors[1] = msg
    THEN w
    ELSE Fatal(w, GraphQL_formatError(w, "Expected error message not found", msg,
                                      Join(w.q.response.Errors)))

GraphQL_ExpectErrorMessage(w, msg) ==
    IF ~w.q.response.set THEN Fatal(w, NotExecuted)
    ELSE IF \E i \in 1..Len(w.q.response.Errors) : w.q.response.Errors[i] = msg
    THEN w
    ELSE Fatal(w, GraphQL_formatError(w, "Expected error message not found", msg,
                                      Join(w.q.response.Errors)))

GraphQL_ExpectData(w, expected) ==
    IF ~w.q.response.set THEN Fatal(w, NotExecuted) ELSE
    LET expectedBytes == Marshal(expected) IN
    IF expectedBytes.err THEN Fatal(w, Message("Failed to marshal expected data")) ELSE
    LET expectedNorm == Unmarshal(expectedBytes.b) IN
    IF expectedNorm.err THEN Fatal(w, Message("Failed to normalize expected data")) ELSE
    LET actualNorm == Unmarshal(w.q.response.Data.b) IN
    IF actualNorm.err THEN Fatal(w, Message("Failed to parse response data")) ELSE
    IF ~jsonEqual(expectedNorm.v, actualNorm.v)
    THEN Fatal(w, GraphQL_formatError(w, "GraphQL data mismatch",
                                      MarshalIndent(expectedNorm.v),
                                      MarshalIndent(actualNorm.v)))
    ELSE w

\* fmt.Sprintf("%v", value)
Sprintv(v) ==
    CASE v.t = "nil" -> "<nil>"
      [] v.t \in {"float64", "int"} -> ToString(v.n)
      [] v.t = "string" -> v.s
      [] OTHER -> "map[...]"

\* The loop of ExpectDataPath: the value at the path, or where the walk stops.
RECURSIVE Navigate(_, _)
\* The loop going on with an empty value where a segment is absent.
Navigate_Continue(current, parts) ==
    IF parts = <<>> THEN [stop |-> "", at |-> "", v |-> current]
    ELSE IF current.t = "map"
    THEN IF Head(parts) \in DOMAIN current.m
         THEN Navigate(current.m[Head(parts)], Tail(parts))
         ELSE [stop |-> "", at |-> "", v |-> JNull]
    ELSE [stop |-> "type", at |-> Head(parts), v |-> JNull]

Navigate(current, parts) ==
    IF parts = <<>> THEN [stop |-> "", at |-> "", v |-> current]
    ELSE IF current.t = "map"
    THEN IF Head(parts) \in DOMAIN current.m
         THEN Navigate(current.m[Head(parts)], Tail(parts))
         ELSE [stop |-> "missing", at |-> Head(parts), v |-> JNull]
    ELSE [stop |-> "type", at |-> Head(parts), v |-> JNull]

\* The comparison made after bringing both numbers to float64.
IfaceEqual_Numeric(a, b) ==
    LET float(v) == IF v.t = "int" THEN JNum(v.n) ELSE v IN
    IF a.t = b.t /\ a.t \in {"map", "slice"} THEN "panic"
    ELSE IF float(a) = float(b) THEN "equal" ELSE "differ"

\* Go's == on two interface values: a run-time panic when both hold the same
\* uncomparable type (map, slice), otherwise same type and same value.
IfaceEqual(a, b) ==
    IF a.t = b.t /\ a.t \in {"map", "slice"} THEN "panic"
    ELSE IF a = b THEN "equal" ELSE "differ"

\* A run-time panic: the test stops without a report through testing.TB.
Panic(w) == [w EXCEPT !.t.failed = TRUE, !.t.halted = TRUE, !.t.panicked = TRUE]

\* strings.Join(parts, ".")
RECURSIVE JoinPath(_)
JoinPath(parts) ==
    IF parts = <<>> THEN ""
    ELSE Head(parts) \o (IF Tail(parts) = <<>> THEN "" ELSE ".") \o JoinPath(Tail(parts))

\* ExpectDataPath; the path is given as its segments (strings.Split(path, ".")).
GraphQL_ExpectDataPath(w, parts, expected) ==
    IF ~w.q.response.set THEN Fatal(w, NotExecuted) ELSE
    LET data == Unmarshal(w.q.response.Data.b) IN
    IF data.err \/ data.v.t \notin {"map", "nil"}
    THEN Fatal(w, Message("Failed to parse response data")) ELSE
    LET root == IF data.v.t = "nil" THEN JObj(NoHeaders) ELSE data.v
        n == Navigate(root, parts) IN
    IF n.stop = "missing"
    THEN Fatal(w, GraphQL_formatError(w,
                    "Path " \o JoinPath(parts) \o " not found at " \o n.at,
                    Sprintv(expected), "<missing>"))
    ELSE IF n.stop = "type"
    THEN Fatal(w, Message("Cannot navigate path: unexpected type"))
    ELSE LET eq == IfaceEqual(n.v, expected) IN
         IF eq = "panic" THEN Panic(w)
         ELSE IF eq = "differ"
         THEN Fatal(w, GraphQL_formatError(w,
                         "Data at path " \o JoinPath(parts) \o " mismatch",
                         Sprintv(expected), Sprintv(n.v)))
         ELSE w

-----------------------------------------------------------------------------
(* The test: its inputs, its teardown and the initial state.               *)

Adapters == {"http", "grpc", "graphql"}
BaseURL == "http://srv"
ConfigTimeouts == {0, 10}               \* Config.Timeout given to New*
CallTimeouts == {5, 60}                 \* arguments of Timeout
Builders == {<<"POST", "/api/users">>, <<"GET", "%zz">>}
Bodies == {JNull, JStr("{\"a\":1}"), ObjA(GoInt(1)), GoChan}
HeaderArgs == {<<"X-Request-ID", "123">>, <<"content-type", "text/plain">>}
QueryArgs == {<<"q", "golang">>, <<"limit", "10">>}
Statuses == {200, 400}
ResponseHeaders == {NoHeaders, [k \in {"X-Custom-Header"} |-> "wrong-value"]}
ExpectedStatuses == {200, 201}
ExpectedJSON == {JStr("{\"a\":1}"), JStr("oops"), ObjA(GoInt(1)), GoChan}
ExpectedHeaders == {<<"x-custom-header", "wrong-value">>,
                    <<"X-Custom-Header", "expected-value">>}

\* What the network can do with an HTTP request.
HTTPOutcomes ==
    {Response(s, hd, b, TRUE) : s \in Statuses, hd \in ResponseHeaders, b \in WireTexts}
    \cup {Response(200, NoHeaders, "{\"a\":1}", FALSE), Refused, TimedOut}

\* The answers considered when a test executes a builder repeatedly.
RepeatHTTPOutcomes ==
    {Response(200, NoHeaders, "{\"a\":1}", TRUE),
     Response(400, NoHeaders, "{\"a\":2}", TRUE), Refused}

GRPCBodies ==
    {ProtoMsg("GetUserRequest", "1"), ProtoMsg("GetUserRequest", "2"),
     ProtoMsg("GetUserRequest", BadUTF8)}
GRPCOutcomes ==
    {[kind |-> "ok", body |-> b, code |-> "OK", msg |-> ""] : b \in {"", "0a:1", "garbage"}}
    \cup {[kind |-> "status", body |-> "", code |-> "NotFound", msg |-> "user 999 not found"],
          [kind |-> "refused", body |-> "", code |-> "", msg |-> ""],
          [kind |-> "timeout", body |-> "", code |-> "", msg |-> ""]}
RepeatGRPCOutcomes ==
    {[kind |-> "ok", body |-> "0a:1", code |-> "OK", msg |-> ""],
     [kind |-> "status", body |-> "", code |-> "NotFound", msg |-> "user 999 not found"]}
Codes == {"OK", "NotFound", "Unavailable", "DeadlineExceeded"}
ExpectedMessages == {ProtoMsg("GetUserResponse", "1"), ProtoMsg("GetUserResponse", "")}
ExpectedErrorMessages ==
    {"", "user 999", "user 999 not found", "context deadline exceeded"}

GraphQLVariables == {ObjA(JStr("1")), ObjA(GoChan)}
Envelopes ==
    {"{\"data\":{\"a\":1}}",
     "{\"data\":{\"user\":{\"name\":\"Alice\"}}}",
     "{\"data\":null,\"errors\":[{\"message\":\"user not found\"}]}",
     "{\"errors\":[{\"message\":\"first\"},{\"message\":\"second\"}]}",
     "{}", "oops"}
GraphQLOutcomes ==
    {Response(200, NoHeaders, b, TRUE) : b \in Envelopes}
    \cup {Response(200, NoHeaders, "{}", FALSE), Refused, TimedOut}
RepeatGraphQLOutcomes ==
    {Response(200, NoHeaders, "{\"data\":{\"a\":1}}", TRUE),
     Response(200, NoHeaders, "{}", TRUE), Refused}
ExpectedGraphQLMessages == {"user not found", "second"}
ExpectedData == {ObjA(GoInt(1)), ObjA(GoInt(2)), GoChan}
ExpectedPaths == {<<"a">>, <<"a", "x">>, <<"user", "name">>, <<"user", "missing">>}
ExpectedLeaves == {GoInt(1), JNum(1), JStr("Alice")}

\* The cleanups of the test, run at teardown.
RECURSIVE RunCleanups(_, _)
RunCleanups(n, fs) ==
    IF fs = <<>> THEN n
    ELSE LET f == Head(fs)
             n1 == CASE f.kind = "closeBody" -> CloseBody(n, f.stream)
                     [] f.kind = "closeConn" -> [n EXCEPT !.connOpen = FALSE]
                     [] OTHER -> n IN
         RunCleanups(n1, Tail(fs))

NoAssertion == [kind |-> "", a |-> 0, b |-> 0, pass |-> FALSE]

\* What the test has observed of a builder it has just created.
Unobserved(free, config) ==
    [free |-> free, config |-> config,
     configs |-> 0, execs |-> 0, asserts |-> 0,
     exec |-> "", passes |-> 0, jsonPasses |-> 0,
     mismatched |-> FALSE, late |-> 0, last |-> NoAssertion]

InitWith(free) ==
    \E a \in Adapters, timeout \in ConfigTimeouts, b \in Builders :
        LET config == [BaseURL |-> IF a = "grpc" THEN "localhost:9090" ELSE BaseURL,
                       Timeout |-> timeout] IN
        /\ free => b[2] = "/api/users"
        /\ adapter = a
        /\ suite = CASE a = "http" -> New([BaseURL |-> BaseURL, Timeout |-> timeout])
                     [] a = "grpc" -> NewGRPC([BaseURL |-> "localhost:9090", Timeout |-> timeout])
                     [] a = "graphql" -> NewGraphQL([BaseURL |-> BaseURL, Timeout |-> timeout])
        /\ h = IF a = "http" THEN HTTPBuilder(b[1], b[2]) ELSE HTTPBuilder("GET", "/")
        /\ g = GRPCBuilder("testpb.TestService/GetUser")
        /\ q = GraphQLBuilder("query { users { id } }")
        /\ t = [halted |-> FALSE, failed |-> FALSE, panicked |-> FALSE, reports |-> 0,
                msg |-> Message(""), returned |-> FALSE, done |-> FALSE,
                cleanups |-> IF a = "grpc" THEN <<CloseConnFn>> ELSE <<>>]
        /\ net = [calls |-> 0, sent |-> <<>>, streams |-> <<>>, timedOut |-> FALSE,
                  connOpen |-> (a = "grpc")]
        /\ obs = Unobserved(free, config)
        /\ peer = [h |-> HTTPBuilder("GET", "/api/users/1"),
                   obs |-> Unobserved(free, config)]

Init == InitWith(FALSE)
InitRepeat == InitWith(TRUE)

\* The test function is still running.
Running == ~t.halted /\ ~t.returned

\* A configuration call: before Execute, or at any time when the test does
\* not follow the builder's lifecycle.
Configure(a, w) ==
    /\ Running
    /\ adapter = a
    /\ obs.configs < MaxConfig
    /\ obs.free \/ obs.execs = 0
    /\ Commit([w EXCEPT !.obs.configs = @ + 1])

\* A call of Execute; a timeout can only elapse on a call that has one.  The
\* test notes how the call went: "request" when no call was issued.
Executing(a, w, outcome) ==
    /\ Running
    /\ adapter = a
    /\ IF obs.free THEN obs.execs < MaxExec ELSE obs.execs = 0
    /\ outcome.kind = "timeout" =>
          /\ w.net.calls > net.calls
          /\ Bound(w.net.sent[Len(w.net.sent)]) > 0
    /\ Commit([w EXCEPT !.obs.execs = @ + 1,
                        !.obs.exec = IF w.net.calls = net.calls THEN "request"
                                     ELSE outcome.kind,
                        !.obs.passes = 0, !.obs.jsonPasses = 0,
                        !.obs.last = NoAssertion])

\* A call of an assertion, and what the test saw of it: whether it returned
\* without a report, how many assertions passed since Execute, and how many
\* assertions were started after a failure had been reported.
Asserting(a, kind, x, y, w) ==
    /\ Running
    /\ adapter = a
    /\ obs.asserts < MaxAsserts
    /\ LET pass == ~w.t.halted /\ w.t.reports = t.reports IN
       Commit([w EXCEPT !.obs.asserts = @ + 1,
                        !.obs.mismatched = @ \/ w.t.reports > t.reports,
                        !.obs.late = IF obs.mismatched THEN @ + 1 ELSE @,
                        !.obs.passes = IF pass THEN @ + 1 ELSE @,
                        !.obs.jsonPasses = IF pass /\ kind = "ExpectJSON" THEN @ + 1 ELSE @,
                        !.obs.last = [kind |-> kind, a |-> x, b |-> y, pass |-> pass]])

CallBody == \E body \in Bodies : Configure("http", Body(World, body))
CallHeader == \E kv \in HeaderArgs : Configure("http", Header(World, kv[1], kv[2]))
CallQuery == \E kv \in QueryArgs : Configure("http", Query(World, kv[1], kv[2]))
CallAuthorization == Configure("http", Authorization(World, "Bearer token123"))
CallTimeout == \E d \in CallTimeouts : Configure("http", Timeout(World, d))
CallExecute ==
    \E pick \in ExecutePicks(World),
       outcome \in (IF obs.free THEN RepeatHTTPOutcomes ELSE HTTPOutcomes) :
        Executing("http", Execute(World, pick, outcome), outcome)
CallExpectStatus ==
    \E code \in ExpectedStatuses :
        Asserting("http", "ExpectStatus", code, 0, ExpectStatus(World, code))
CallExpectJSON ==
    \E expected \in ExpectedJSON :
        Asserting("http", "ExpectJSON", expected, 0, ExpectJSON(World, expected))
CallExpectHeader ==
    \E kv \in ExpectedHeaders :
        Asserting("http", "ExpectHeader", kv[1], kv[2], ExpectHeader(World, kv[1], kv[2]))

CallGRPCBody == \E m \in GRPCBodies : Configure("grpc", GRPC_Body(World, m))
CallGRPCMetadata == Configure("grpc", GRPC_Metadata(World, "x-custom-header", "test-value"))
CallGRPCTimeout == \E d \in CallTimeouts : Configure("grpc", GRPC_Timeout(World, d))
CallGRPCExecute ==
    \E outcome \in (IF obs.free THEN RepeatGRPCOutcomes ELSE GRPCOutcomes) :
        Executing("grpc", GRPC_Execute(World, outcome), outcome)
CallGRPCExpectCode ==
    \E code \in Codes :
        Asserting("grpc", "ExpectCode", code, 0, GRPC_ExpectCode(World, code))
CallGRPCExpectMessage ==
    \E m \in ExpectedMessages :
        Asserting("grpc", "ExpectMessage", m, 0, GRPC_ExpectMessage(World, m))
CallGRPCExpectErrorMessage ==
    \E msg \in ExpectedErrorMessages :
        Asserting("grpc", "ExpectErrorMessage", msg, 0, GRPC_ExpectErrorMessage(World, msg))

CallGraphQLVariables ==
    \E v \in GraphQLVariables : Configure("graphql", GraphQL_Variables(World, v))
CallGraphQLHeader ==
    \E kv \in HeaderArgs : Configure("graphql", GraphQL_Header(World, kv[1], kv[2]))
CallGraphQLTimeout == \E d \in CallTimeouts : Configure("graphql", GraphQL_Timeout(World, d))
CallGraphQLExecute ==
    \E pick \in GraphQL_setHeaders(q),
       outcome \in (IF obs.free THEN RepeatGraphQLOutcomes ELSE GraphQLOutcomes) :
        Executing("graphql", GraphQL_Execute(World, pick, outcome), outcome)
CallGraphQLExpectNoErrors ==
    Asserting("graphql", "ExpectNoErrors", 0, 0, GraphQL_ExpectNoErrors(World))
CallGraphQLExpectErrors ==
    Asserting("graphql", "ExpectErrors", 0, 0, GraphQL_ExpectErrors(World))
CallGraphQLExpectErrorMessage ==
    \E msg \in ExpectedGraphQLMessages :
        Asserting("graphql", "ExpectErrorMessage", msg, 0,
                  GraphQL_ExpectErrorMessage(World, msg))
CallGraphQLExpectData ==
    \E expected \in ExpectedData :
        Asserting("graphql", "ExpectData", expected, 0, GraphQL_ExpectData(World, expected))
CallGraphQLExpectDataPath ==
    \E parts \in ExpectedPaths, expected \in ExpectedLeaves :
        Asserting("graphql", "ExpectDataPath", parts, expected,
                  GraphQL_ExpectDataPath(World, parts, expected))

\* The test function returns without a failure having stopped it.
Return ==
    /\ Running
    /\ t' = [t EXCEPT !.returned = TRUE]
    /\ UNCHANGED <<adapter, suite, h, g, q, net, obs, peer>>

\* Teardown: the registered cleanups run, whether the test returned or was
\* stopped by t.Fatal.
Teardown ==
    /\ t.halted \/ t.returned
    /\ ~t.done
    /\ net' = RunCleanups(net, t.cleanups)
    /\ t' = [t EXCEPT !.cleanups = <<>>, !.done = TRUE]
    /\ UNCHANGED <<adapter, suite, h, g, q, obs, peer>>

Next ==
    \/ CallBody \/ CallHeader \/ CallQuery \/ CallAuthorization \/ CallTimeout
    \/ CallExecute \/ CallExpectStatus \/ CallExpectJSON \/ CallExpectHeader
    \/ CallGRPCBody \/ CallGRPCMetadata \/ CallGRPCTimeout \/ CallGRPCExecute
    \/ CallGRPCExpectCode \/ CallGRPCExpectMessage \/ CallGRPCExpectErrorMessage
    \/ CallGraphQLVariables \/ CallGraphQLHeader \/ CallGraphQLTimeout
    \/ CallGraphQLExecute \/ CallGraphQLExpectNoErrors \/ CallGraphQLExpectErrors
    \/ CallGraphQLExpectErrorMessage \/ CallGraphQLExpectData
    \/ CallGraphQLExpectDataPath
    \/ Return \/ Teardown

\* A test that follows the builder's lifecycle: configure, Execute once, assert.
Spec == Init /\ [][Next]_vars

\* A test that calls the builder's methods in any order, Execute repeatedly.
SpecRepeat == InitRepeat /\ [][Next]_vars

-----------------------------------------------------------------------------
(* A test of the payload assertions: one call answered with a JSON         *)
(* document, then ExpectJSON / ExpectData with structured and textual      *)
(* expected values.                                                        *)

Count(v) == JObj([k \in {"count"} |-> v])
AB(x, y) == JObj([k \in {"a", "b"} |-> IF k = "a" THEN x ELSE y])

PayloadDocs ==
    {WObj(<<<<"count", WNum("42")>>>>), WObj(<<<<"count", WNum("42.0")>>>>),
     WObj(<<<<"a", WNum("1")>>, <<"b", WNum("2")>>>>),
     WObj(<<<<"b", WNum("2")>>, <<"a", WNum("1")>>>>),
     WObj(<<<<"a", WNum("1")>>, <<"a", WNum("2")>>>>),
     WObj(<<<<"a", WArr(<<WNum("1"), WNum("2")>>)>>>>),
     WObj(<<<<"a", WArr(<<WNum("2"), WNum("1")>>)>>>>),
     WObj(<<<<"a", WNum("1")>>>>), WObj(<<<<"a", WNum("2")>>>>),
     WObj(<<<<"user", WObj(<<<<"name", WStr("Alice")>>>>)>>>>),
     WStr("Alice"), WBool(TRUE), WNull}
PayloadTexts == {Render(d) : d \in PayloadDocs}

PayloadExpected ==
    {Count(GoInt(42)), Count(JNum(42)), AB(GoInt(1), GoInt(2)),
     ObjA(JArr(<<GoInt(1), GoInt(2)>>)), ObjA(GoInt(1)), ObjA(JNum(2)),
     JObj([k \in {"user"} |-> JObj([n \in {"name"} |-> JStr("Alice")])]),
     JStr("Alice"), JBool(TRUE), JNull, GoChan,
     JStr("{\"a\":1}"), JStr("{\"count\":42.0}"), JStr("{\"b\":2,\"a\":1}"),
     JStr("\"Alice\""), JStr("null")}

InitPayload ==
    /\ InitWith(FALSE)
    /\ adapter \in {"http", "graphql"}
    /\ h.path # "%zz"
    /\ suite.timeout = DefaultTimeout

PayloadExecute ==
    \E text \in PayloadTexts, pick \in ExecutePicks(World) :
        LET outcome == Response(200, NoHeaders, text, TRUE) IN
        Executing("http", Execute(World, pick, outcome), outcome)
PayloadGraphQLExecute ==
    \E text \in PayloadTexts, pick \in GraphQL_setHeaders(q) :
        LET outcome == Response(200, NoHeaders, DataEnvelope(text), TRUE) IN
        Executing("graphql", GraphQL_Execute(World, pick, outcome), outcome)
PayloadExpectJSON ==
    \E expected \in PayloadExpected :
        Asserting("http", "ExpectJSON", expected, 0, ExpectJSON(World, expected))
PayloadExpectData ==
    \E expected \in PayloadExpected :
        Asserting("graphql", "ExpectData", expected, 0, GraphQL_ExpectData(World, expected))

PayloadPaths == {<<"count">>, <<"a">>, <<"user">>, <<"user", "name">>}
PayloadLeaves ==
    {GoInt(42), JNum(42), GoInt(1), JStr("Alice"), JNull,
     JArr(<<JNum(1), JNum(2)>>), JObj([n \in {"name"} |-> JStr("Alice")])}
PayloadExpectDataPath ==
    \E parts \in PayloadPaths, expected \in PayloadLeaves :
        Asserting("graphql", "ExpectDataPath", parts, expected,
                  GraphQL_ExpectDataPath(World, parts, expected))

NextPayload ==
    \/ PayloadExecute \/ PayloadGraphQLExecute
    \/ PayloadExpectJSON \/ PayloadExpectData \/ PayloadExpectDataPath
    \/ Return \/ Teardown

SpecPayload == InitPayload /\ [][NextPayload]_vars

-----------------------------------------------------------------------------
(* A test with two builders of one HTTP suite, whose chains of calls are    *)
(* interleaved in any order: each builder is configured, executed once and  *)
(* asserted on.                                                            *)

MaxPairConfig == 1      \* configuration calls on each builder of the pair
MaxPairAsserts == 1     \* assertion calls on each builder of the pair

Pair == {1, 2}

\* The world as the second builder's methods see it: the receiver in h.
Swap(w) ==
    [w EXCEPT !.h = w.peer.h, !.obs = w.peer.obs,
              !.peer = [h |-> w.h, obs |-> w.obs]]
View(who) == IF who = 1 THEN World ELSE Swap(World)
PairCommit(who, w) == Commit(IF who = 1 THEN w ELSE Swap(w))

PairBodies == {JStr("{\"a\":1}"), ObjA(GoInt(2))}
PairOutcomes ==
    {Response(200, NoHeaders, "{\"a\":1}", TRUE),
     Response(400, NoHeaders, "{\"a\":2}", TRUE), TimedOut}
PairExpectedJSON == {ObjA(GoInt(1))}

InitPair ==
    /\ InitWith(FALSE)
    /\ adapter = "http"
    /\ h.path # "%zz"

PairConfigure(who, w) ==
    /\ Running
    /\ View(who).obs.configs < MaxPairConfig
    /\ View(who).obs.execs = 0
    /\ PairCommit(who, [w EXCEPT !.obs.configs = @ + 1])

PairExecuting(who, w, outcome) ==
    /\ Running
    /\ View(who).obs.execs = 0
    /\ PairCommit(who, [w EXCEPT !.obs.execs = @ + 1,
                                 !.obs.exec = IF w.net.calls = net.calls THEN "request"
                                              ELSE outcome.kind])

PairAsserting(who, kind, x, y, w) ==
    /\ Running
    /\ View(who).obs.asserts < MaxPairAsserts
    /\ LET pass == ~w.t.halted /\ w.t.reports = t.reports IN
       PairCommit(who, [w EXCEPT !.obs.asserts = @ + 1,
                                 !.obs.passes = IF pass THEN @ + 1 ELSE @,
                                 !.obs.last = [kind |-> kind, a |-> x, b |-> y,
                                               pass |-> pass]])

PairBody ==
    \E who \in Pair, body \in PairBodies : PairConfigure(who, Body(View(who), body))
PairHeader ==
    \E who \in Pair : PairConfigure(who, Header(View(who), "X-Request-ID", "123"))
PairTimeout ==
    \E who \in Pair, d \in CallTimeouts : PairConfigure(who, Timeout(View(who), d))
PairExecute ==
    \E who \in Pair, outcome \in PairOutcomes :
        \E pick \in ExecutePicks(View(who)) :
            PairExecuting(who, Execute(View(who), pick, outcome), outcome)
PairExpectStatus ==
    \E who \in Pair, code \in ExpectedStatuses :
        PairAsserting(who, "ExpectStatus", code, 0, ExpectStatus(View(who), code))
PairExpectJSON ==
    \E who \in Pair, expected \in PairExpectedJSON :
        PairAsserting(who, "ExpectJSON", expected, 0, ExpectJSON(View(who), expected))

NextPair ==
    \/ PairBody \/ PairHeader \/ PairTimeout
    \/ PairExecute \/ PairExpectStatus \/ PairExpectJSON
    \/ Return \/ Teardown

SpecPair == InitPair /\ [][NextPair]_vars

-----------------------------------------------------------------------------
(* A test of the failure report with bodies around the truncation size: a  *)
(* string body is sent, the answer carries a body, ExpectStatus fails.     *)

X2 == "x" \o "x"
X4 == X2 \o X2
X8 == X4 \o X4
X16 == X8 \o X8
X32 == X16 \o X16
X64 == X32 \o X32
X128 == X64 \o X64
X256 == X128 \o X128
X512 == X256 \o X256
Below == SubSeq(X512 \o X512, 1, 1023)     \* 1023 bytes
AtLimit == Below \o "y"                    \* 1024 bytes
Above == AtLimit \o "z"                    \* 1025 bytes
Double == AtLimit \o X512 \o X512          \* 2048 bytes
ReportBodies == {"", "x", Below, AtLimit, Above, Double}

InitReport ==
    /\ InitWith(FALSE)
    /\ adapter = "http"
    /\ h.path # "%zz"

ReportBody == \E text \in ReportBodies : Configure("http", Body(World, JStr(text)))
ReportExecute ==
    \E pick \in ExecutePicks(World), status \in Statuses, text \in ReportBodies :
        LET outcome == Response(status, NoHeaders, text, TRUE) IN
        Executing("http", Execute(World, pick, outcome), outcome)
ReportExpectStatus ==
    \E code \in ExpectedStatuses :
        Asserting("http", "ExpectStatus", code, 0, ExpectStatus(World, code))

NextReport ==
    \/ ReportBody \/ ReportExecute \/ ReportExpectStatus
    \/ Return \/ Teardown

SpecReport == InitReport /\ [][NextReport]_vars

-----------------------------------------------------------------------------
(* Properties.                                                             *)

LastSent == net.sent[Len(net.sent)]

\* C1: on every adapter, an assertion called on a builder whose Execute has
\* not run halts the test with the "not executed" failure; no assertion
\* passes on an unexecuted builder.
C1_NotExecutedHalts ==
    (obs.execs = 0 /\ obs.asserts > 0) =>
        /\ t.halted
        /\ t.msg = NotExecuted
        /\ ~obs.last.pass

\* C2: the response stream of an executed HTTP builder is read at most once,
\* and once the body is cached the cache holds the bytes that one read
\* returned (the body as the server sent it, empty or not), so every later
\* assertion and report works on those bytes.
C2_BodyReadOnce ==
    /\ \A s \in 1..Len(net.streams) : net.streams[s].reads <= 1
    /\ (adapter = "http" /\ ~h.responseBody.nil) =>
          \E s \in 1..Len(net.streams) :
              /\ net.streams[s].reads = 1
              /\ net.streams[s].rest = ""
              /\ h.responseBody.b = net.streams[s].body
    /\ (adapter = "http" /\ t.msg.kind = "report") =>
          /\ ~h.responseBody.nil
          /\ t.msg.respBody = h.responseBody.b

\* C2 witness: ExpectJSON read the body, found a mismatch, and the report it
\* built used the body again.
C2_Witness ==
    /\ adapter = "http"
    /\ t.msg.kind = "report"
    /\ t.msg.assertion = "JSON response mismatch"
    /\ t.msg.respBody # ""
    /\ net.streams[h.resp.stream].reads = 1

\* C3: in a chain of assertions on one builder the first mismatch halts the
\* test: at most one failure is reported, no assertion is started after a
\* failure was reported, and a reported failure leaves the test halted.
C3_FailFast ==
    /\ t.reports <= 1
    /\ obs.late = 0
    /\ obs.mismatched => (t.halted /\ t.failed /\ ~obs.last.pass)

\* C3 witness: an assertion of the chain passed, the next one mismatched and
\* its report halted the test.
C3_Witness ==
    /\ obs.execs = 1
    /\ obs.passes >= 1
    /\ obs.mismatched
    /\ t.halted
    /\ t.msg.kind = "report"

\* What ExpectJSON decides for an expected value and the served body text.
JSONMatches(expected, text) ==
    LET actual == Unmarshal(text)
        bytes == Marshal(expected)
        want == IF expected.t = "string" THEN Unmarshal(expected.s)
                ELSE IF bytes.err THEN [err |-> TRUE, v |-> JNull]
                ELSE Unmarshal(bytes.b) IN
    /\ ~actual.err
    /\ ~want.err
    /\ jsonEqual(want.v, actual.v)

\* What the last HTTP assertion has to decide, from the response the server
\* gave and the assertion's arguments alone.
HTTPOracle ==
    LET st == net.streams[h.resp.stream] IN
    CASE obs.last.kind = "ExpectStatus" -> st.status = obs.last.a
      [] obs.last.kind = "ExpectHeader" ->
            HeaderGet(st.header, obs.last.a) = obs.last.b
      [] obs.last.kind = "ExpectJSON" -> st.ok /\ JSONMatches(obs.last.a, st.body)
      [] OTHER -> FALSE

\* C4: after a successful Execute, whether an HTTP assertion passes depends
\* only on the captured exchange and its arguments, whatever passing
\* assertions ran before it and however often it is repeated.
C4_OrderIndependent ==
    (adapter = "http" /\ h.resp.set /\ obs.last.kind # "") =>
        (obs.last.pass <=> HTTPOracle)

\* C4 witness: ExpectJSON passed a second time on the same builder, after the
\* first call had consumed the stream.
C4_Witness ==
    /\ adapter = "http"
    /\ obs.jsonPasses >= 2
    /\ obs.passes >= 3
    /\ obs.last.kind = "ExpectJSON"
    /\ obs.last.pass

\* C5: a builder is executed exactly once: over any sequence of calls on one
\* builder at most one Execute runs and at most one network call is issued.
C5_ExecutedOnce ==
    /\ obs.execs <= 1
    /\ net.calls <= 1

\* The builder holds no captured result.
NoResult ==
    /\ ~h.resp.set
    /\ ~q.response.set
    /\ g.respErr.nil
    /\ g.respBody.nil

\* The last assertion is one that expects the given gRPC error status.
ExpectsStatus(code, msg) ==
    \/ obs.last.kind = "ExpectCode" /\ obs.last.a = code
    \/ obs.last.kind = "ExpectErrorMessage" /\ obs.last.a = msg

BuilderTimeout ==
    CASE adapter = "http" -> h.timeout
      [] adapter = "grpc" -> g.timeout
      [] adapter = "graphql" -> q.timeout

\* C7: on every adapter the call made by Execute is bounded by exactly one
\* timeout: the per-call timeout when it is positive, else the suite's
\* default timeout; no call goes out without a bound.
C7_OneTimeout ==
    net.calls > 0 =>
        /\ Bound(LastSent) > 0
        /\ Bound(LastSent) = IF BuilderTimeout > 0 THEN BuilderTimeout
                             ELSE suite.timeout

C9_Released ==
    /\ t.done =>
          /\ \A s \in 1..Len(net.streams) : net.streams[s].closed
          /\ ~net.connOpen
    /\ adapter = "graphql" =>
          \A s \in 1..Len(net.streams) : net.streams[s].closed

\* C9 witness: an HTTP response was obtained, an assertion halted the test
\* with a report, and teardown has run.
C9_Witness ==
    /\ adapter = "http"
    /\ Len(net.streams) = 1
    /\ obs.mismatched
    /\ t.halted
    /\ t.done
    /\ net.streams[1].closed

RECURSIVE Normalize(_)
Normalize(v) ==
    CASE v.t = "int" -> JNum(v.n)
      [] v.t = "map" -> JObj([k \in DOMAIN v.m |-> Normalize(v.m[k])])
      [] v.t = "slice" -> JArr([i \in DOMAIN v.a |-> Normalize(v.a[i])])
      [] OTHER -> v

\* The payload the server gave to the executed builder, as text.
ServedPayload ==
    IF adapter = "http" THEN net.streams[1].body
    ELSE UnmarshalEnvelope(net.streams[1].body).Data.b

\* The last assertion is a payload assertion on the executed builder.
PayloadAsserted ==
    /\ obs.execs = 1
    /\ Len(net.streams) = 1
    /\ obs.last.kind \in {"ExpectJSON", "ExpectData"}

\* The expected argument read as a document: a string given to ExpectJSON is
\* JSON text, any other value is structured.
ExpectedIsText == obs.last.kind = "ExpectJSON" /\ obs.last.a.t = "string"
ExpectedHasTree ==
    IF ExpectedIsText THEN ~Unmarshal(obs.last.a.s).err ELSE ~Unsupported(obs.last.a)
ExpectedTree ==
    IF ExpectedIsText THEN Unmarshal(obs.last.a.s).v ELSE Normalize(obs.last.a)

\* No encoding produced by json.Marshal is rejected by json.Unmarshal.
MarshalAlwaysParses ==
    t.msg.kind \notin {"Failed to normalize expected value",
                       "Failed to normalize expected data"}

\* C11: ExpectJSON and ExpectData pass exactly when the expected and the
\* actual document decode to the same normalized tree: key order and the
\* spelling of a number do not matter, the order of array elements does.
C11_StructuralEquality ==
    PayloadAsserted =>
        /\ obs.last.pass <=>
              (ExpectedHasTree /\ ExpectedTree = Unmarshal(ServedPayload).v)
        /\ MarshalAlwaysParses

\* C11 witness: the expected {"count": 42} (an int) passed against the served
\* text {"count":42.0}.
C11_Witness ==
    /\ PayloadAsserted
    /\ obs.last.a = Count(GoInt(42))
    /\ ServedPayload = "{\"count\":42.0}"
    /\ obs.last.pass

\* The test as it stood before the last assertion stopped it.
Rewound == [World EXCEPT !.t.halted = FALSE, !.t.failed = FALSE]

\* Whether the adapter's payload assertion passes for a structured value.
StructuredPasses(v) ==
    IF adapter = "http" THEN ~ExpectJSON(Rewound, v).t.halted
    ELSE ~GraphQL_ExpectData(Rewound, v).t.halted

\* C12: an expected value given as the JSON text of a document passes
\* ExpectJSON / ExpectData exactly when the equivalent structured value (the
\* tree the text decodes to) passes.
C12_TextAsStructured ==
    (PayloadAsserted /\ obs.last.a.t = "string" /\ ~Unmarshal(obs.last.a.s).err) =>
        (obs.last.pass <=> StructuredPasses(Unmarshal(obs.last.a.s).v))

\* The serialize-then-decode normalization of a structured value.
RoundTrip(v) == Unmarshal(Marshal(v).b)

\* C13: serializing a structured value and decoding it again gives a tree
\* that jsonEqual reports equal to the original (the value with every number
\* a float64), and normalizing that tree again changes nothing.
C13_RoundTrip ==
    (PayloadAsserted /\ ~Unsupported(obs.last.a)) =>
        LET v == obs.last.a
            once == RoundTrip(v) IN
        /\ ~once.err
        /\ jsonEqual(once.v, v)
        /\ once.v = Normalize(v)
        /\ RoundTrip(once.v) = once

\* C13 witness: an object holding an array of ints went through the
\* normalization in ExpectJSON and matched the served document.
C13_Witness ==
    /\ PayloadAsserted
    /\ obs.last.a = ObjA(JArr(<<GoInt(1), GoInt(2)>>))
    /\ obs.last.kind = "ExpectJSON"
    /\ obs.last.pass

\* The status code of the RPC as the network decided it.
ServedCode ==
    CASE obs.exec = "ok" -> "OK"
      [] obs.exec = "status" -> "NotFound"
      [] obs.exec = "refused" -> "Unavailable"
      [] obs.exec = "timeout" -> "DeadlineExceeded"
      [] OTHER -> ""

\* C14: on an executed call ExpectStatus / ExpectCode passes exactly when the
\* captured status or code equals the expected one, and halts the test
\* otherwise; a successful gRPC call has the code OK.
C14_StatusExact ==
    /\ (adapter = "http" /\ h.resp.set /\ obs.last.kind = "ExpectStatus") =>
          /\ obs.last.pass <=> (net.streams[h.resp.stream].status = obs.last.a)
          /\ ~obs.last.pass => (t.halted /\ t.failed)
    /\ (adapter = "grpc" /\ obs.execs = 1 /\ obs.last.kind = "ExpectCode") =>
          /\ obs.last.pass <=> (ServedCode = obs.last.a)
          /\ ~obs.last.pass =>
                /\ t.halted
                /\ t.failed
                /\ t.msg.assertion = "gRPC status code mismatch"
                /\ t.msg.expected = obs.last.a
                /\ t.msg.actual = ServedCode
    /\ (adapter = "grpc" /\ obs.exec = "ok") => g.respErr.code = "OK"

\* C14 witness: a gRPC call answered NotFound failed ExpectCode(Unavailable).
C14_Witness ==
    /\ adapter = "grpc"
    /\ obs.exec = "status"
    /\ obs.last.kind = "ExpectCode"
    /\ obs.last.a = "Unavailable"
    /\ ~obs.last.pass
    /\ t.halted

\* The error messages of the GraphQL response the server gave.
ServedErrors == UnmarshalEnvelope(net.streams[1].body).Errors

\* C15: on an executed GraphQL response exactly one of ExpectNoErrors and
\* ExpectErrors passes: ExpectNoErrors when the error list is empty,
\* ExpectErrors when it holds at least one error.
C15_ErrorsExclusive ==
    (adapter = "graphql" /\ q.response.set) =>
        LET n == Len(ServedErrors)
            noErrors == ~GraphQL_ExpectNoErrors(Rewound).t.halted
            errors == ~GraphQL_ExpectErrors(Rewound).t.halted IN
        /\ noErrors <=> (n = 0)
        /\ errors <=> (n > 0)
        /\ noErrors # errors
        /\ obs.last.kind = "ExpectNoErrors" => (obs.last.pass <=> (n = 0))
        /\ obs.last.kind = "ExpectErrors" => (obs.last.pass <=> (n > 0))

\* C15 witness: ExpectNoErrors passed on a response without errors and the
\* following ExpectErrors halted the test.
C15_Witness ==
    /\ adapter = "graphql"
    /\ q.response.set
    /\ Len(ServedErrors) = 0
    /\ obs.passes >= 1
    /\ obs.last.kind = "ExpectErrors"
    /\ ~obs.last.pass
    /\ t.msg.assertion = "Expected GraphQL errors"

\* C16: on an executed GraphQL response ExpectErrorMessage(msg) passes exactly
\* when some entry of the error list, at any position, has the message msg;
\* with an empty error list it halts the test.
C16_ErrorMessageFound ==
    (adapter = "graphql" /\ q.response.set /\ obs.last.kind = "ExpectErrorMessage") =>
        /\ obs.last.pass <=>
              (\E i \in 1..Len(ServedErrors) : ServedErrors[i] = obs.last.a)
        /\ Len(ServedErrors) = 0 => (~obs.last.pass /\ t.halted /\ t.failed)
        /\ ~obs.last.pass =>
              /\ t.halted
              /\ t.msg.assertion = "Expected error message not found"
              /\ t.msg.expected = obs.last.a

\* C16 witness: the message was found at the second position of the list.
C16_Witness ==
    /\ adapter = "graphql"
    /\ q.response.set
    /\ Len(ServedErrors) = 2
    /\ obs.last.kind = "ExpectErrorMessage"
    /\ obs.last.a = ServedErrors[2]
    /\ obs.last.pass

\* The status message of the RPC as the network decided it.
ServedMessage ==
    CASE obs.exec = "status" -> "user 999 not found"
      [] obs.exec = "refused" -> "connection error"
      [] obs.exec = "timeout" -> "context deadline exceeded"
      [] OTHER -> ""

\* C17: on an executed gRPC call ExpectErrorMessage(msg) passes exactly when
\* the status message of the result equals msg (a prefix does not match),
\* and halts the test with a report otherwise.
C17_ErrorMessageExact ==
    (adapter = "grpc" /\ obs.execs = 1 /\ obs.last.kind = "ExpectErrorMessage") =>
        /\ obs.last.pass <=> (ServedMessage = obs.last.a)
        /\ ~obs.last.pass =>
              /\ t.halted
              /\ t.failed
              /\ t.msg.assertion = "gRPC error message mismatch"
              /\ t.msg.expected = obs.last.a
              /\ t.msg.actual = ServedMessage

\* C17 witness: a call answered NotFound "user 999 not found" passed
\* ExpectCode(NotFound) and then ExpectErrorMessage("user 999 not found").
C17_Witness ==
    /\ adapter = "grpc"
    /\ obs.exec = "status"
    /\ g.respErr.code = "NotFound"
    /\ obs.passes = 2
    /\ obs.last.kind = "ExpectErrorMessage"
    /\ obs.last.a = "user 999 not found"
    /\ obs.last.pass

\* The data of the GraphQL response the server gave, decoded.
ServedData == Unmarshal(UnmarshalEnvelope(net.streams[1].body).Data.b)

\* The number of leading segments of a path that can be followed in a tree.
RECURSIVE Followed(_, _)
Followed(tree, parts) ==
    IF parts = <<>> \/ tree.t # "map" THEN 0
    ELSE IF Head(parts) \notin DOMAIN tree.m THEN 0
    ELSE 1 + Followed(tree.m[Head(parts)], Tail(parts))

\* The value reached by following the first n segments of a path.
RECURSIVE ValueAt(_, _, _)
ValueAt(tree, parts, n) ==
    IF n = 0 THEN tree ELSE ValueAt(tree.m[Head(parts)], Tail(parts), n - 1)

\* C18: ExpectDataPath follows the path one segment at a time.  When every
\* segment is present the leaf is compared with the expected value; when a
\* segment is absent the test halts at that segment with a "not found"
\* report whose actual value is "<missing>"; when an intermediate value is
\* not an object the test halts at that segment too.
C18_DataPath ==
    (adapter = "graphql" /\ q.response.set /\ obs.last.kind = "ExpectDataPath"
        /\ ~ServedData.err /\ ServedData.v.t = "map") =>
        LET parts == obs.last.a
            n == Followed(ServedData.v, parts)
            stop == ValueAt(ServedData.v, parts, n) IN
        /\ n = Len(parts) => (obs.last.pass <=> (stop = obs.last.b))
        /\ n < Len(parts) =>
              /\ ~obs.last.pass
              /\ t.halted
              /\ t.failed
              /\ t.reports = 1
        /\ (n < Len(parts) /\ stop.t = "map") =>
              /\ t.msg.assertion =
                    "Path " \o JoinPath(parts) \o " not found at " \o parts[n + 1]
              /\ t.msg.actual = "<missing>"
        /\ (n < Len(parts) /\ stop.t # "map") =>
              t.msg.kind = "Cannot navigate path: unexpected type"

\* C18 witness: in {"user": {"name": "Alice"}} the path user.missing halted
\* the test at the segment "missing".
C18_Witness ==
    /\ adapter = "graphql"
    /\ q.response.set
    /\ ServedData.v = JObj([k \in {"user"} |-> JObj([n \in {"name"} |-> JStr("Alice")])])
    /\ obs.last.kind = "ExpectDataPath"
    /\ obs.last.a = <<"user", "missing">>
    /\ t.halted
    /\ t.msg.actual = "<missing>"

\* The response's value for a header name: names are case-insensitive, an
\* absent header has the value "".
ServedHeader(key) ==
    LET header == net.streams[h.resp.stream].header IN
    IF \E k \in DOMAIN header : Canon(k) = Canon(key)
    THEN header[CHOOSE k \in DOMAIN header : Canon(k) = Canon(key)]
    ELSE ""

\* The last assertion is ExpectHeader on the executed HTTP builder.
HeaderAsserted == adapter = "http" /\ h.resp.set /\ obs.last.kind = "ExpectHeader"

\* C19 as stated: ExpectHeader passes exactly when the response's value for
\* the header equals the expected value, and otherwise halts the test with a
\* report naming the header, the expected and the actual value.
C19_HeaderReport ==
    HeaderAsserted =>
        /\ obs.last.pass <=> (ServedHeader(obs.last.a) = obs.last.b)
        /\ ~obs.last.pass =>
              /\ t.halted
              /\ t.msg.assertion = "Header mismatch (" \o obs.last.a \o ")"
              /\ t.msg.expected = obs.last.b
              /\ t.msg.actual = ServedHeader(obs.last.a)

\* The keys under which the test configured a Content-Type header.
ConfiguredContentType == {k \in DOMAIN h.headers : Canon(k) = "Content-Type"}

\* The request of the executed HTTP builder has gone out.
HTTPSent == adapter = "http" /\ obs.execs = 1 /\ net.calls = 1

\* C20 as stated: a request sent with a body carries Content-Type:
\* application/json whatever configuration calls preceded Execute, and a
\* request sent without a body gets no Content-Type from the library.
C20_ContentTypeJSON ==
    HTTPSent =>
        /\ h.body.t # "nil" =>
              /\ "Content-Type" \in DOMAIN LastSent.header
              /\ LastSent.header["Content-Type"] = "application/json"
        /\ (h.body.t = "nil" /\ ConfiguredContentType = {}) =>
              "Content-Type" \notin DOMAIN LastSent.header

\* C20 amended: a request sent with a body carries Content-Type:
\* application/json unless the test configured a Content-Type header (under
\* any spelling of the name) with Header, whose value then replaces it; a
\* request sent without a body carries a Content-Type only if the test
\* configured one.
C20_ContentType ==
    HTTPSent =>
        /\ (h.body.t # "nil" /\ ConfiguredContentType = {}) =>
              /\ "Content-Type" \in DOMAIN LastSent.header
              /\ LastSent.header["Content-Type"] = "application/json"
        /\ ConfiguredContentType # {} =>
              /\ "Content-Type" \in DOMAIN LastSent.header
              /\ \E k \in ConfiguredContentType :
                    LastSent.header["Content-Type"] = h.headers[k]
        /\ (h.body.t = "nil" /\ ConfiguredContentType = {}) =>
              "Content-Type" \notin DOMAIN LastSent.header

\* C20 witness: a request with a body went out with the Content-Type the
\* test had configured.
C20_Witness ==
    /\ HTTPSent
    /\ h.body.t # "nil"
    /\ LastSent.body.b # ""
    /\ LastSent.header["Content-Type"] = "text/plain"

\* The fields of a record that a step changes.
Changed(old, new) == {f \in DOMAIN old : new[f] # old[f]}

\* Two maps differ in at most one key's entry.
OneEntry(old, new) ==
    \/ new = old
    \/ \E key \in DOMAIN new :
          /\ DOMAIN new = DOMAIN old \cup {key}
          /\ \A k \in DOMAIN old \ {key} : new[k] = old[k]

\* A step that is a configuration call on the test's builder.
IsConfigure == obs'.configs = obs.configs + 1

\* What a configuration call may do: set one configuration field of the one
\* builder (one entry, when the field is a map), and nothing else.
ConfigureFrame ==
    /\ adapter' = adapter
    /\ suite' = suite
    /\ t' = t
    /\ net' = net
    /\ obs' = [obs EXCEPT !.configs = @ + 1]
    /\ peer' = peer
    /\ adapter = "http" =>
          /\ g' = g /\ q' = q
          /\ \E f \in {"body", "headers", "query", "timeout"} : Changed(h, h') \subseteq {f}
          /\ OneEntry(h.headers, h'.headers)
          /\ OneEntry(h.query, h'.query)
    /\ adapter = "grpc" =>
          /\ h' = h /\ q' = q
          /\ \E f \in {"body", "md", "timeout"} : Changed(g, g') \subseteq {f}
          /\ OneEntry(g.md, g'.md)
    /\ adapter = "graphql" =>
          /\ h' = h /\ g' = g
          /\ \E f \in {"variables", "headers", "timeout"} : Changed(q, q') \subseteq {f}
          /\ OneEntry(q.headers, q'.headers)

\* The builder holds a setting its Execute rejects.
InvalidSetting ==
    CASE adapter = "http" -> Unsupported(h.body) \/ ~ParseOK(h.path)
      [] adapter = "grpc" -> ~g.body.nil /\ g.body.id = BadUTF8
      [] adapter = "graphql" -> Unsupported(q.variables)

C22_BodySent ==
    HTTPSent =>
        /\ h.body.t = "nil" => LastSent.body.nil
        /\ h.body.t = "string" => LastSent.body = Bytes(h.body.s)
        /\ h.body.t \notin {"nil", "string"} =>
              /\ ~LastSent.body.nil
              /\ LastSent.body.b = MarshalValue(h.body)
              /\ Unmarshal(LastSent.body.b) = [err |-> FALSE, v |-> Normalize(h.body)]
        /\ h.requestBody = LastSent.body
        /\ t.msg.kind = "report" => t.msg.reqBody = LastSent.body.b

\* C22 witness: the string {"a":1} given to Body went out unquoted, and a
\* failure report showed it.
C22_Witness ==
    /\ HTTPSent
    /\ h.body = JStr("{\"a\":1}")
    /\ LastSent.body.b = "{\"a\":1}"
    /\ t.msg.kind = "report"
    /\ t.msg.reqBody = "{\"a\":1}"

\* C23: the suite holds the base endpoint it was constructed with and the
\* timeout it was constructed with, 30 seconds standing in for a timeout of
\* zero; the HTTP and GraphQL client of the suite has that timeout; nothing
\* the test does with a builder changes any of it.
C23_SuiteConfig ==
    /\ suite.baseURL = obs.config.BaseURL
    /\ suite.timeout = IF obs.config.Timeout = 0 THEN 30 ELSE obs.config.Timeout
    /\ suite.clientTimeout = IF adapter = "grpc" THEN 0 ELSE suite.timeout

\* C23 witness: a suite constructed without a timeout has the default of 30
\* seconds after its builder was given a timeout of its own, executed and
\* asserted on.
C23_Witness ==
    /\ obs.config.Timeout = 0
    /\ suite.timeout = 30
    /\ BuilderTimeout = 5
    /\ obs.execs = 1
    /\ obs.asserts > 0

\* The request line of a report that describes the call that went out.
SentRequestLine ==
    CASE adapter = "http" -> LastSent.body.b
      [] adapter = "grpc" ->
            IF LastSent.body.nil THEN ""
            ELSE protoString(ProtoUnmarshal(LastSent.body.b, "GetUserRequest").m)
      [] adapter = "graphql" ->
            IF LastSent.body.b = "{\"query\":\"" \o q.query \o "\"}" THEN ""
            ELSE SubSeq(LastSent.body.b, Len("{\"query\":\"" \o q.query \o "\",\"variables\":") + 1,
                        Len(LastSent.body.b) - 1)

\* C24: once Execute has captured an exchange, the captured fields stay what
\* the call made them, whatever configuration calls and assertions follow
\* (the response body cache alone goes from unset to set), and a failure
\* report describes the request that went out.
C24_CapturedFrozen ==
    (obs.execs = 1 /\ net.calls = 1) =>
        /\ (adapter = "http" /\ h.resp.set) =>
              LET st == net.streams[h.resp.stream] IN
              /\ h.requestURL = LastSent.url
              /\ h.requestHeaders = LastSent.header
              /\ h.requestBody = LastSent.body
              /\ h.resp.status = st.status
              /\ h.resp.header = st.header
              /\ h.responseBody.nil \/ h.responseBody.b = st.body
        /\ (adapter = "grpc" /\ obs.exec = "ok") =>
              (g.respErr.nil /\ g.respBody.b \in {"", "0a:1", "garbage"})
        /\ t.msg.kind = "report" =>
              /\ t.msg.reqBody = SentRequestLine
              /\ adapter = "http" =>
                    (t.msg.url = LastSent.url /\ t.msg.reqHeaders = LastSent.header)

\* A test that has only the given builder, as configured and not yet
\* executed, on a suite as it was constructed.
Solo(b) ==
    [World EXCEPT
        !.suite = New(obs.config),
        !.h = [b EXCEPT !.resp = NoResp, !.requestURL = "",
                        !.requestHeaders = NoHeaders, !.requestBody = NilBytes,
                        !.responseBody = NilBytes],
        !.t = [halted |-> FALSE, failed |-> FALSE, panicked |-> FALSE, reports |-> 0,
               msg |-> Message(""), returned |-> FALSE, done |-> FALSE,
               cleanups |-> <<>>],
        !.net = [calls |-> 0, sent |-> <<>>, streams |-> <<>>, timedOut |-> FALSE,
                 connOpen |-> FALSE]]

\* The request a builder of the pair sent, and the answer the network gave.
SentBy(b) == IF b.resp.set THEN net.sent[b.resp.stream] ELSE LastSent
AnswerTo(b) ==
    IF b.resp.set
    THEN LET st == net.streams[b.resp.stream] IN
         Response(st.status, st.header, st.body, st.ok)
    ELSE TimedOut

\* The builder's chain run on its own up to its last assertion.
SoloRun(b, o) ==
    IF o.execs = 1 /\ o.exec # "request"
    THEN Execute(Solo(b), SentBy(b).header, AnswerTo(b))
    ELSE Solo(b)

\* An HTTP assertion of the given kind applied to a world.
Assertion(w, last) ==
    CASE last.kind = "ExpectStatus" -> ExpectStatus(w, last.a)
      [] last.kind = "ExpectJSON" -> ExpectJSON(w, last.a)
      [] last.kind = "ExpectHeader" -> ExpectHeader(w, last.a, last.b)

\* C25: two builders of one suite do not affect each other, however their
\* calls are interleaved: the request each one sent, the exchange it
\* captured and the outcome of its last assertion are those of the same
\* chain run alone on a freshly constructed suite, and the suite is what it
\* was constructed as.
C25_Isolated ==
    /\ suite = New(obs.config)
    /\ \A who \in Pair :
          LET b == View(who).h
              o == View(who).obs
              run == SoloRun(b, o) IN
          /\ o.execs = 0 => b = Solo(b).h
          /\ (o.execs = 1 /\ o.exec # "request") =>
                /\ SentBy(b).header \in ExecutePicks(Solo(b))
                /\ run.net.sent = <<SentBy(b)>>
                /\ run.t.halted = ~b.resp.set
                /\ run.h.requestURL = b.requestURL
                /\ run.h.requestHeaders = b.requestHeaders
                /\ run.h.requestBody = b.requestBody
                /\ run.h.resp.set = b.resp.set
                /\ run.h.resp.status = b.resp.status
                /\ run.h.resp.header = b.resp.header
                /\ b.responseBody.nil \/ b.responseBody.b = AnswerTo(b).body
          /\ o.last.kind # "" =>
                (o.last.pass <=> ~Assertion(run, o.last).t.halted)

\* C25 witness: the first builder went out with its own timeout of 5, the
\* second one after it with the suite's default, and an assertion passed on
\* each of them.
C25_Witness ==
    /\ Len(net.sent) = 2
    /\ h.resp.stream = 1
    /\ peer.h.resp.stream = 2
    /\ net.sent[1].clientTimeout = 5
    /\ net.sent[2].clientTimeout = suite.timeout
    /\ net.sent[1].body # net.sent[2].body
    /\ obs.last.pass
    /\ peer.obs.last.pass

\* The document that holds a value at a path and nothing else.
RECURSIVE DocWith(_, _)
DocWith(parts, v) ==
    IF parts = <<>> THEN v
    ELSE JObj([k \in {Head(parts)} |-> DocWith(Tail(parts), v)])

\* The last assertion is ExpectDataPath with a path that leads to a number
\* of the served data.
NumericLeafAsserted ==
    /\ adapter = "graphql"
    /\ q.response.set
    /\ obs.last.kind = "ExpectDataPath"
    /\ ~ServedData.err
    /\ ServedData.v.t = "map"
    /\ Followed(ServedData.v, obs.last.a) = Len(obs.last.a)
    /\ ValueAt(ServedData.v, obs.last.a, Len(obs.last.a)).t = "float64"

\* C26: where the path leads to a number, ExpectDataPath passes for an
\* expected float64 of that value and reports a mismatch for the int of the
\* same value (Expected and Actual then print alike), while ExpectData
\* passes for a document holding that int at the same place.
C26_PathNotNormalized ==
    NumericLeafAsserted =>
        LET leaf == ValueAt(ServedData.v, obs.last.a, Len(obs.last.a))
            doc == DocWith(obs.last.a, GoInt(leaf.n)) IN
        /\ obs.last.b.t = "float64" => (obs.last.pass <=> obs.last.b.n = leaf.n)
        /\ obs.last.b.t # "float64" => ~obs.last.pass
        /\ obs.last.b = GoInt(leaf.n) =>
              /\ t.halted
              /\ t.msg.assertion = "Data at path " \o JoinPath(obs.last.a) \o " mismatch"
              /\ t.msg.expected = t.msg.actual
        /\ Normalize(doc) = ServedData.v =>
              ~GraphQL_ExpectData(Rewound, doc).t.halted

\* C26 witness: on the data {"count":42}, ExpectData with the int 42 passed
\* and ExpectDataPath("count", 42) with the same int reported a mismatch.
C26_Witness ==
    /\ NumericLeafAsserted
    /\ ServedData.v = Count(JNum(42))
    /\ obs.passes >= 1
    /\ obs.last.a = <<"count">>
    /\ obs.last.b = GoInt(42)
    /\ ~obs.last.pass
    /\ t.msg.expected = "42"
    /\ t.msg.actual = "42"

\* How a report shows a body: as it is up to 1024 bytes, else its first 1024
\* bytes and the marker.
ShownAs(shown, body) ==
    /\ Len(body) <= 1024 => shown = body
    /\ Len(body) > 1024 =>
          /\ shown = SubSeq(body, 1, 1024) \o "... (truncated)"
          /\ Len(shown) = 1024 + Len("... (truncated)")
    /\ Len(shown) <= 1024 + Len("... (truncated)")

\* C27: an HTTP failure report shows the request body and the response body
\* unchanged when they are at most 1024 bytes long (1024 included), and as
\* their first 1024 bytes followed by "... (truncated)" when they are longer.
C27_Truncation ==
    (adapter = "http" /\ t.msg.kind = "report") =>
        /\ ShownAs(t.msg.reqBody, LastSent.body.b)
        /\ ShownAs(t.msg.respBody, net.streams[h.resp.stream].body)

\* C27 witness: a report shows the 1024 bytes of the request body as they
\* are and the 1025 bytes of the response body cut to 1024 and the marker.
C27_Witness ==
    /\ adapter = "http"
    /\ t.msg.kind = "report"
    /\ Len(LastSent.body.b) = 1024
    /\ t.msg.reqBody = LastSent.body.b
    /\ Len(net.streams[h.resp.stream].body) = 1025
    /\ t.msg.respBody = AtLimit \o "... (truncated)"

\* C28: after Execute has run again on an HTTP builder, the builder shows the
\* latest exchange only: a cached response body is the body of the latest
\* response, the request-body snapshot is the body of the latest request,
\* and ExpectJSON and the failure report work on those.
C28_LatestExchange ==
    (adapter = "http" /\ h.resp.set /\ h.resp.stream = Len(net.sent)) =>
        LET st == net.streams[h.resp.stream] IN
        /\ h.resp.status = st.status
        /\ h.requestURL = LastSent.url
        /\ h.requestHeaders = LastSent.header
        /\ h.requestBody = LastSent.body
        /\ ~h.responseBody.nil => h.responseBody.b = st.body
        /\ obs.last.kind = "ExpectJSON" =>
              (obs.last.pass <=> (st.ok /\ JSONMatches(obs.last.a, st.body)))
        /\ t.msg.kind = "report" =>
              /\ t.msg.reqBody = LastSent.body.b
              /\ t.msg.respBody = st.body

\* C29: every ExpectDataPath call on an executed GraphQL builder either
\* passes or halts the test with a failure reported through testing.TB,
\* whatever the leaf and the expected value are; it never ends in a
\* run-time panic.
C29_PathOutcome ==
    (adapter = "graphql" /\ q.response.set /\ obs.last.kind = "ExpectDataPath") =>
        /\ ~t.panicked
        /\ obs.last.pass \/ (t.halted /\ t.failed /\ t.reports = 1)

\* The last assertion is ExpectMessage on the executed gRPC builder.
MessageAsserted ==
    adapter = "grpc" /\ obs.execs = 1 /\ obs.last.kind = "ExpectMessage"

\* The reply of the RPC is the encoding of a message with the given id field.
ReplyHolds(id) ==
    /\ ~g.respBody.nil
    /\ g.respBody.b = IF id = "" THEN "" ELSE "0a:" \o id

\* C30: ExpectMessage on a call that ended with an error halts the test with
\* the "RPC failed" failure naming the status code and message, not with a
\* decoding failure or a comparison report; it passes exactly when the call
\* succeeded and its reply decodes to a message equal to the expected one.
C30_MessageAfterError ==
    MessageAsserted =>
        /\ obs.exec # "ok" =>
              /\ ~obs.last.pass
              /\ t.halted
              /\ t.failed
              /\ t.reports = 1
              /\ t.msg.kind = "Cannot validate message: RPC failed"
              /\ t.msg.response = ServedCode
              /\ t.msg.respBody = ServedMessage
        /\ obs.last.pass <=> (obs.exec = "ok" /\ ReplyHolds(obs.last.a.id))
        /\ (obs.exec = "ok" /\ ~obs.last.pass) =>
              /\ t.halted
              /\ t.msg.kind \in {"Failed to unmarshal response", "report"}

\* C30 witness: the call was answered NotFound, ExpectCode(NotFound) passed,
\* and ExpectMessage halted the test naming NotFound and the status message.
C30_Witness ==
    /\ MessageAsserted
    /\ obs.exec = "status"
    /\ obs.passes = 1
    /\ t.halted
    /\ t.msg.kind = "Cannot validate message: RPC failed"
    /\ t.msg.response = "NotFound"
    /\ t.msg.respBody = "user 999 not found"

====
